---- MODULE Spec2Model ----
(***************************************************************************)
(* Model of server.js: the bridge runPythonScript between the HTTP        *)
(* handlers and the Python worker process, and the handlers that use it.  *)
(*                                                                         *)
(* Text is a sequence of Unicode code points (naturals); what the worker  *)
(* writes is a sequence of bytes.  A JSON value is a tagged tuple:        *)
(*   <<"obj", <<key, value>>...>>   <<"arr", values>>   <<"str", text>>   *)
(*   <<"num", mantissa, scale>> (mantissa / 10^scale)   <<"lit", name>>   *)
(***************************************************************************)
EXTENDS Integers, Sequences, FiniteSets, TLC

(***************************************************************************)
(* Bounds of the model.                                                    *)
(***************************************************************************)
\* Number of lines the worker prints on stdout, at most.
MaxLines == 3

\* Number of bytes of a 'data' chunk, at most, unless the chunk is all that is
\* left of the stream.
MaxChunk == 3

(***************************************************************************)
(* Characters.                                                             *)
(***************************************************************************)
LowerCase == <<"a", "b", "c", "d", "e", "f", "g", "h", "i", "j", "k", "l", "m",
               "n", "o", "p", "q", "r", "s", "t", "u", "v", "w", "x", "y", "z">>

UpperCase == <<"A", "B", "C", "D", "E", "F", "G", "H", "I", "J", "K", "L", "M",
               "N", "O", "P", "Q", "R", "S", "T", "U", "V", "W", "X", "Y", "Z">>

Digits == <<"0", "1", "2", "3", "4", "5", "6", "7", "8", "9">>

\* Code points of the other characters the model writes; "eacute" is U+00E9,
\* "euro" U+20AC, "nbsp" U+00A0, "fffd" the replacement character U+FFFD.
Punct == ("{" :> 123) @@ ("}" :> 125) @@ ("[" :> 91) @@ ("]" :> 93)
         @@ ("\"" :> 34) @@ (":" :> 58) @@ ("," :> 44) @@ ("." :> 46)
         @@ ("-" :> 45) @@ ("+" :> 43) @@ ("_" :> 95) @@ ("\\" :> 92)
         @@ ("/" :> 47) @@ ("!" :> 33) @@ ("'" :> 39) @@ ("?" :> 63)
         @@ ("(" :> 40) @@ (")" :> 41) @@ ("%" :> 37)
         @@ (" " :> 32) @@ ("\t" :> 9) @@ ("\n" :> 10) @@ ("\r" :> 13)
         @@ ("eacute" :> 233) @@ ("euro" :> 8364) @@ ("nbsp" :> 160)
         @@ ("fffd" :> 65533)

\* The code point of a character.
Ord(c) ==
    IF \E i \in DOMAIN LowerCase : LowerCase[i] = c
    THEN 96 + (CHOOSE i \in DOMAIN LowerCase : LowerCase[i] = c)
    ELSE IF \E i \in DOMAIN UpperCase : UpperCase[i] = c
    THEN 64 + (CHOOSE i \in DOMAIN UpperCase : UpperCase[i] = c)
    ELSE IF \E i \in DOMAIN Digits : Digits[i] = c
    THEN 47 + (CHOOSE i \in DOMAIN Digits : Digits[i] = c)
    ELSE Punct[c]

\* A string literal of the program, as text.
Str(cs) == [i \in DOMAIN cs |-> Ord(cs[i])]

RECURSIVE Concat(_)
\* The concatenation of a sequence of texts (by halves, which keeps the
\* evaluation shallow).
Concat(ss) ==
    IF ss = <<>> THEN <<>>
    ELSE IF Len(ss) = 1 THEN ss[1]
    ELSE Concat(SubSeq(ss, 1, Len(ss) \div 2)) \o Concat(SubSeq(ss, Len(ss) \div 2 + 1, Len(ss)))

(***************************************************************************)
(* UTF-8.                                                                  *)
(***************************************************************************)
\* The UTF-8 encoding of one code point of the Basic Multilingual Plane.
Utf8EncodeChar(cp) ==
    IF cp < 128 THEN <<cp>>
    ELSE IF cp < 2048 THEN <<192 + (cp \div 64), 128 + (cp % 64)>>
    ELSE <<224 + (cp \div 4096), 128 + ((cp \div 64) % 64), 128 + (cp % 64)>>

\* The bytes the worker writes for a text (PYTHONIOENCODING=utf-8).
Utf8Encode(text) == Concat([i \in DOMAIN text |-> Utf8EncodeChar(text[i])])

IsContinuation(b) == b >= 128 /\ b <= 191

\* Number of continuation bytes the lead byte b announces; -1: not a lead byte.
Utf8Need(b) ==
    IF b < 128 THEN 0
    ELSE IF b >= 194 /\ b <= 223 THEN 1
    ELSE IF b >= 224 /\ b <= 239 THEN 2
    ELSE IF b >= 240 /\ b <= 244 THEN 3
    ELSE -1

\* Number of continuation bytes that follow position i, at most n.
RECURSIVE Utf8Have(_, _, _)
Utf8Have(bytes, i, n) ==
    IF n = 0 \/ i + 1 > Len(bytes) \/ ~IsContinuation(bytes[i + 1]) THEN 0
    ELSE 1 + Utf8Have(bytes, i + 1, n - 1)

\* The code point of the complete sequence of n + 1 bytes at position i.
Utf8CodePoint(bytes, i, n) ==
    IF n = 0 THEN bytes[i]
    ELSE IF n = 1 THEN (bytes[i] - 192) * 64 + (bytes[i + 1] - 128)
    ELSE IF n = 2 THEN (bytes[i] - 224) * 4096 + (bytes[i + 1] - 128) * 64
                       + (bytes[i + 2] - 128)
    ELSE (bytes[i] - 240) * 262144 + (bytes[i + 1] - 128) * 4096
         + (bytes[i + 2] - 128) * 64 + (bytes[i + 3] - 128)

RECURSIVE Utf8DecodeFrom(_, _)
\* Buffer.toString('utf8') from position i: a complete sequence gives its code
\* point; an ill-formed or truncated one gives U+FFFD and decoding goes on
\* after the bytes that belonged to it.
Utf8DecodeFrom(bytes, i) ==
    IF i > Len(bytes) THEN <<>>
    ELSE LET need == Utf8Need(bytes[i])
             have == IF need < 0 THEN 0 ELSE Utf8Have(bytes, i, need)
         IN  IF need >= 0 /\ have = need
             THEN <<Utf8CodePoint(bytes, i, need)>> \o Utf8DecodeFrom(bytes, i + need + 1)
             ELSE <<65533>> \o Utf8DecodeFrom(bytes, i + have + 1)

\* data.toString('utf8') of one chunk.
ToStringUtf8(data) == Utf8DecodeFrom(data, 1)

(***************************************************************************)
(* String.prototype.split('\n'), trim, startsWith, toLowerCase, includes.  *)
(***************************************************************************)
\* The position of the first line feed of the text at or after position i;
\* Len(text) + 1 when there is none.
NextLineFeed(text, i) ==
    IF \E n \in i..Len(text) : text[n] = 10
    THEN CHOOSE n \in i..Len(text) : text[n] = 10 /\ \A m \in i..(n - 1) : text[m] # 10
    ELSE Len(text) + 1

RECURSIVE SplitFrom(_, _, _)
\* The pieces of the text from position i on, the next one ending before
\* position n.
SplitFrom(text, i, n) ==
    IF n > Len(text) THEN <<SubSeq(text, i, Len(text))>>
    ELSE <<SubSeq(text, i, n - 1)>> \o SplitFrom(text, n + 1, NextLineFeed(text, n + 1))

\* dataString.split('\n')
SplitLines(text) == SplitFrom(text, 1, NextLineFeed(text, 1))

\* White space and line terminators of ECMAScript, which trim() removes.
IsJsWhiteSpace(c) ==
    \/ c \in {9, 10, 11, 12, 13, 32, 160, 5760, 8232, 8233, 8239, 8287, 12288, 65279}
    \/ (c >= 8192 /\ c <= 8202)

\* line.trim()
Trim(text) ==
    LET keep == {i \in DOMAIN text : ~IsJsWhiteSpace(text[i])}
    IN  IF keep = {} THEN <<>>
        ELSE LET lo == CHOOSE i \in keep : \A j \in keep : i <= j
                 hi == CHOOSE i \in keep : \A j \in keep : j <= i
             IN  SubSeq(text, lo, hi)

\* text.startsWith(prefix)
StartsWith(text, prefix) ==
    Len(text) >= Len(prefix) /\ SubSeq(text, 1, Len(prefix)) = prefix

\* text.toLowerCase(), for the letters A-Z
ToLowerCase(text) ==
    [i \in DOMAIN text |-> IF text[i] >= 65 /\ text[i] <= 90 THEN text[i] + 32 ELSE text[i]]

\* text.includes(part)
Includes(text, part) ==
    \E i \in 1..(Len(text) - Len(part) + 1) : SubSeq(text, i, i + Len(part) - 1) = part

(***************************************************************************)
(* JSON.parse.                                                             *)
(***************************************************************************)
ParseOk(v, p) == [ok |-> TRUE, v |-> v, p |-> p]

\* A SyntaxError at position p.
ParseFail(p) == [ok |-> FALSE, v |-> <<"undefined">>, p |-> p]

IsJsonWhiteSpace(c) == c \in {9, 10, 13, 32}

IsDigit(c) == c >= 48 /\ c <= 57

IsHexDigit(c) == IsDigit(c) \/ (c >= 65 /\ c <= 70) \/ (c >= 97 /\ c <= 102)

HexValue(c) == IF IsDigit(c) THEN c - 48 ELSE IF c >= 97 THEN c - 87 ELSE c - 55

RECURSIVE Pow10(_)
Pow10(n) == IF n <= 0 THEN 1 ELSE 10 * Pow10(n - 1)

RECURSIVE SkipWhiteSpace(_, _)
\* The first position from i on that holds no JSON white space.
SkipWhiteSpace(s, i) ==
    IF i <= Len(s) /\ IsJsonWhiteSpace(s[i]) THEN SkipWhiteSpace(s, i + 1) ELSE i

RECURSIVE ParseDigits(_, _, _, _)
\* The run of digits from i on: its value n, its length cnt, the position p after it.
ParseDigits(s, i, n, cnt) ==
    IF i <= Len(s) /\ IsDigit(s[i])
    THEN ParseDigits(s, i + 1, 10 * n + (s[i] - 48), cnt + 1)
    ELSE [n |-> n, cnt |-> cnt, p |-> i]

RECURSIVE NormalizeNumber(_, _)
\* The number mant / 10^scale in lowest terms of the scale.
NormalizeNumber(mant, scale) ==
    IF mant = 0 THEN <<"num", 0, 0>>
    ELSE IF scale < 0 THEN <<"num", mant * Pow10(-scale), 0>>
    ELSE IF scale > 0 /\ mant % 10 = 0 THEN NormalizeNumber(mant \div 10, scale - 1)
    ELSE <<"num", mant, scale>>

\* number: -? (0 | [1-9][0-9]*) (. [0-9]+)? ([eE] [+-]? [0-9]+)?
\* The number with the parts int, frac and exp (runs of digits), exp.p the
\* position after it.
NumberValue(neg, int, frac, exp, eNeg) ==
    ParseOk(NormalizeNumber((IF neg THEN -1 ELSE 1) * (int.n * Pow10(frac.cnt) + frac.n),
                            frac.cnt - (IF eNeg THEN -exp.n ELSE exp.n)),
            exp.p)

NoDigits(p) == [n |-> 0, cnt |-> 0, p |-> p]

NumberAfterExponent(neg, int, frac, exp, eNeg) ==
    IF exp.cnt = 0 THEN ParseFail(exp.p) ELSE NumberValue(neg, int, frac, exp, eNeg)

\* The exponent part, which starts at position p if there is one.
NumberExponent(s, neg, int, frac, p) ==
    IF p <= Len(s) /\ s[p] \in {69, 101}
    THEN IF p + 1 <= Len(s) /\ s[p + 1] \in {43, 45}
         THEN NumberAfterExponent(neg, int, frac, ParseDigits(s, p + 2, 0, 0), s[p + 1] = 45)
         ELSE NumberAfterExponent(neg, int, frac, ParseDigits(s, p + 1, 0, 0), FALSE)
    ELSE NumberValue(neg, int, frac, NoDigits(p), FALSE)

NumberAfterFraction(s, neg, int, frac) ==
    IF frac.cnt = 0 THEN ParseFail(frac.p) ELSE NumberExponent(s, neg, int, frac, frac.p)

\* The fraction part, which starts at position p if there is one.
NumberFraction(s, neg, int, p) ==
    IF int.cnt = 0 THEN ParseFail(p)
    ELSE IF p <= Len(s) /\ s[p] = 46
    THEN NumberAfterFraction(s, neg, int, ParseDigits(s, p + 1, 0, 0))
    ELSE NumberExponent(s, neg, int, NoDigits(p), p)

NumberAfterInteger(s, neg, int) == NumberFraction(s, neg, int, int.p)

\* The integer part, which starts at position j.
NumberInteger(s, neg, j) ==
    IF j <= Len(s) /\ s[j] = 48
    THEN NumberAfterInteger(s, neg, [n |-> 0, cnt |-> 1, p |-> j + 1])
    ELSE NumberAfterInteger(s, neg, ParseDigits(s, j, 0, 0))

ParseNumber(s, i) ==
    IF s[i] = 45 THEN NumberInteger(s, TRUE, i + 1) ELSE NumberInteger(s, FALSE, i)

RECURSIVE ParseString(_, _, _)
\* The rest of a string whose opening quote is before position i.
ParseString(s, i, acc) ==
    IF i > Len(s) THEN ParseFail(i)
    ELSE IF s[i] = 34 THEN ParseOk(<<"str", acc>>, i + 1)
    ELSE IF s[i] < 32 THEN ParseFail(i)
    ELSE IF s[i] # 92 THEN ParseString(s, i + 1, Append(acc, s[i]))
    ELSE IF i + 1 > Len(s) THEN ParseFail(i + 1)
    ELSE LET e == s[i + 1]
         IN  IF e \in {34, 92, 47} THEN ParseString(s, i + 2, Append(acc, e))
             ELSE IF e = 98 THEN ParseString(s, i + 2, Append(acc, 8))
             ELSE IF e = 102 THEN ParseString(s, i + 2, Append(acc, 12))
             ELSE IF e = 110 THEN ParseString(s, i + 2, Append(acc, 10))
             ELSE IF e = 114 THEN ParseString(s, i + 2, Append(acc, 13))
             ELSE IF e = 116 THEN ParseString(s, i + 2, Append(acc, 9))
             ELSE IF e = 117 /\ i + 5 <= Len(s)
                     /\ \A k \in (i + 2)..(i + 5) : IsHexDigit(s[k])
             THEN ParseString(s, i + 6,
                      Append(acc, HexValue(s[i + 2]) * 4096 + HexValue(s[i + 3]) * 256
                                  + HexValue(s[i + 4]) * 16 + HexValue(s[i + 5])))
             ELSE ParseFail(i + 1)

\* The members of an object with member k |-> v defined: a repeated key keeps
\* its place and takes the later value.
PutMember(members, k, v) ==
    IF \E n \in DOMAIN members : members[n][1] = k
    THEN [n \in DOMAIN members |-> IF members[n][1] = k THEN <<k, v>> ELSE members[n]]
    ELSE Append(members, <<k, v>>)

RECURSIVE ParseValue(_, _)
RECURSIVE ParseElements(_, _, _)
RECURSIVE ParseMembers(_, _, _)

\* After an element of an array, at position j (white space skipped).
ElementNext(s, acc, j) ==
    IF j > Len(s) THEN ParseFail(j)
    ELSE IF s[j] = 44 THEN ParseElements(s, SkipWhiteSpace(s, j + 1), acc)
    ELSE IF s[j] = 93 THEN ParseOk(<<"arr", acc>>, j + 1)
    ELSE ParseFail(j)

ElementAfterValue(s, acc, v) ==
    IF ~v.ok THEN v ELSE ElementNext(s, Append(acc, v.v), SkipWhiteSpace(s, v.p))

\* The elements of an array from position i (white space skipped) on.
ParseElements(s, i, acc) == ElementAfterValue(s, acc, ParseValue(s, i))

\* After a member of an object, at position j (white space skipped).
MemberNext(s, acc, j) ==
    IF j > Len(s) THEN ParseFail(j)
    ELSE IF s[j] = 44 THEN ParseMembers(s, SkipWhiteSpace(s, j + 1), acc)
    ELSE IF s[j] = 125 THEN ParseOk(<<"obj", acc>>, j + 1)
    ELSE ParseFail(j)

MemberAfterValue(s, acc, key, v) ==
    IF ~v.ok THEN v ELSE MemberNext(s, PutMember(acc, key, v.v), SkipWhiteSpace(s, v.p))

\* After the key of a member, at position c (white space skipped).
MemberColon(s, acc, key, c) ==
    IF c > Len(s) \/ s[c] # 58 THEN ParseFail(c)
    ELSE MemberAfterValue(s, acc, key, ParseValue(s, SkipWhiteSpace(s, c + 1)))

MemberAfterKey(s, acc, k) ==
    IF ~k.ok THEN k ELSE MemberColon(s, acc, k.v[2], SkipWhiteSpace(s, k.p))

\* The members of an object from position i (white space skipped) on.
ParseMembers(s, i, acc) ==
    IF i > Len(s) \/ s[i] # 34 THEN ParseFail(i)
    ELSE MemberAfterKey(s, acc, ParseString(s, i + 1, <<>>))

\* The object or array whose bracket is before position j (white space skipped).
ParseObjectBody(s, j) ==
    IF j <= Len(s) /\ s[j] = 125 THEN ParseOk(<<"obj", <<>>>>, j + 1)
    ELSE ParseMembers(s, j, <<>>)

ParseArrayBody(s, j) ==
    IF j <= Len(s) /\ s[j] = 93 THEN ParseOk(<<"arr", <<>>>>, j + 1)
    ELSE ParseElements(s, j, <<>>)

\* The literal true, false or null at the start of text t, which is at
\* position i.
ParseLiteral(t, i) ==
    IF StartsWith(t, Str(<<"t", "r", "u", "e">>)) THEN ParseOk(<<"lit", "true">>, i + 4)
    ELSE IF StartsWith(t, Str(<<"f", "a", "l", "s", "e">>))
    THEN ParseOk(<<"lit", "false">>, i + 5)
    ELSE IF StartsWith(t, Str(<<"n", "u", "l", "l">>)) THEN ParseOk(<<"lit", "null">>, i + 4)
    ELSE ParseFail(i)

\* The JSON value that starts at position i (white space skipped).
ParseValue(s, i) ==
    IF i > Len(s) THEN ParseFail(i)
    ELSE IF s[i] = 123 THEN ParseObjectBody(s, SkipWhiteSpace(s, i + 1))
    ELSE IF s[i] = 91 THEN ParseArrayBody(s, SkipWhiteSpace(s, i + 1))
    ELSE IF s[i] = 34 THEN ParseString(s, i + 1, <<>>)
    ELSE IF s[i] = 45 \/ IsDigit(s[i]) THEN ParseNumber(s, i)
    ELSE ParseLiteral(SubSeq(s, i, Len(s)), i)

\* Nothing but white space may follow the value r, to the end at position j.
ParseEnd(text, r, j) ==
    IF ~r.ok THEN r ELSE IF j <= Len(text) THEN ParseFail(j) ELSE r

ParseWhole(text, r) == ParseEnd(text, r, IF r.ok THEN SkipWhiteSpace(text, r.p) ELSE 0)

\* JSON.parse(text): [ok |-> TRUE, v |-> the value], or [ok |-> FALSE, p |-> the
\* position of the SyntaxError it throws].
JSONParse(text) == ParseWhole(text, ParseValue(text, SkipWhiteSpace(text, 1)))

(***************************************************************************)
(* JavaScript values: a JSON value, or undefined.                          *)
(***************************************************************************)
Undefined == <<"undefined">>

JsTrue == <<"lit", "true">>

JsFalse == <<"lit", "false">>

JsNull == <<"lit", "null">>

\* v.key: the member of an object; undefined on any other value that has
\* properties.  (On null and undefined the access throws: see IsNullish.)
Member(v, key) ==
    IF v[1] = "obj" /\ \E n \in DOMAIN v[2] : v[2][n][1] = key
    THEN v[2][CHOOSE n \in DOMAIN v[2] : v[2][n][1] = key][2]
    ELSE Undefined

\* Reading a property of v throws a TypeError.
IsNullish(v) == v = Undefined \/ v = JsNull

\* ToBoolean(v)
Truthy(v) ==
    IF v[1] \in {"obj", "arr"} THEN TRUE
    ELSE IF v[1] = "str" THEN v[2] # <<>>
    ELSE IF v[1] = "num" THEN v[2] # 0
    ELSE v = JsTrue

\* The object literal { k1: v1, ... } as res.json sends it: JSON.stringify
\* leaves out the members whose value is undefined.
JsonObject(members) ==
    <<"obj", SelectSeq(members, LAMBDA m : m[2] # Undefined)>>

RECURSIVE NatToText(_)
\* The decimal digits of a natural number.
NatToText(n) == IF n < 10 THEN <<48 + n>> ELSE Append(NatToText(n \div 10), 48 + (n % 10))

\* The digits of n, padded with zeros on the left to width w.
RECURSIVE PadDigits(_, _)
PadDigits(n, w) == IF w <= 0 THEN <<>> ELSE Append(PadDigits(n \div 10, w - 1), 48 + (n % 10))

\* String(x) of the number mant / 10^scale (in positional notation).
NumberToText(mant, scale) ==
    LET a == IF mant < 0 THEN -mant ELSE mant
        sign == IF mant < 0 THEN <<45>> ELSE <<>>
    IN  sign \o NatToText(a \div Pow10(scale))
        \o (IF scale > 0 THEN <<46>> \o PadDigits(a % Pow10(scale), scale) ELSE <<>>)

RECURSIVE JsString(_)
RECURSIVE JoinElements(_, _)
\* Array.prototype.join(','): null and undefined elements give the empty string.
JoinElements(vs, i) ==
    IF i > Len(vs) THEN <<>>
    ELSE (IF i > 1 THEN <<44>> ELSE <<>>)
         \o (IF IsNullish(vs[i]) THEN <<>> ELSE JsString(vs[i]))
         \o JoinElements(vs, i + 1)

\* String(v), as a template literal `${v}` computes it.
JsString(v) ==
    IF v[1] = "str" THEN v[2]
    ELSE IF v[1] = "num" THEN NumberToText(v[2], v[3])
    ELSE IF v[1] = "lit" THEN Str(IF v[2] = "true" THEN <<"t", "r", "u", "e">>
                                  ELSE IF v[2] = "false" THEN <<"f", "a", "l", "s", "e">>
                                  ELSE <<"n", "u", "l", "l">>)
    ELSE IF v[1] = "arr" THEN JoinElements(v[2], 1)
    ELSE IF v[1] = "obj"
    THEN Str(<<"[", "o", "b", "j", "e", "c", "t", " ", "O", "b", "j", "e", "c", "t", "]">>)
    ELSE Str(<<"u", "n", "d", "e", "f", "i", "n", "e", "d">>)

NaN == <<"NaN">>

\* ToNumber(v): <<"num", mant, scale>> or NaN.  A string converts when its
\* trimmed text is empty or a decimal literal; an array or object converts
\* through its string.
RECURSIVE ToNumber(_)
ToNumber(v) ==
    IF v[1] = "num" THEN v
    ELSE IF v[1] = "lit" THEN <<"num", IF v[2] = "true" THEN 1 ELSE 0, 0>>
    ELSE IF v[1] = "str"
    THEN LET t == Trim(v[2])
             r == IF t = <<>> THEN ParseFail(1) ELSE ParseNumber(t, 1)
         IN  IF t = <<>> THEN <<"num", 0, 0>>
             ELSE IF r.ok /\ r.p = Len(t) + 1 THEN r.v
             ELSE NaN
    ELSE IF v[1] \in {"arr", "obj"} THEN ToNumber(<<"str", JsString(v)>>)
    ELSE NaN

\* x.toFixed(1) of the number tenths / 10 in magnitude, negative if neg.
Fixed1Text(neg, tenths) ==
    (IF neg THEN <<45>> ELSE <<>>) \o NatToText(tenths \div 10) \o <<46, 48 + (tenths % 10)>>

\* a / d in tenths, rounded half up.
RoundTenths(a, d) == (20 * a + d) \div (2 * d)

\* (x * 100).toFixed(1)
Fixed1OfHundredTimes(x) ==
    IF x = NaN THEN Str(<<"N", "a", "N">>)
    ELSE IF x[2] < 0 THEN Fixed1Text(TRUE, RoundTenths(-x[2] * 100, Pow10(x[3])))
    ELSE Fixed1Text(FALSE, RoundTenths(x[2] * 100, Pow10(x[3])))

\* (v * 100).toFixed(1)
TimesHundredToFixed1(v) == Fixed1OfHundredTimes(ToNumber(v))

(***************************************************************************)
(* String literals of server.js.                                           *)
(***************************************************************************)
KeySuccess ==
    Str(<<"s", "u", "c", "c", "e", "s", "s">>)

KeyError ==
    Str(<<"e", "r", "r", "o", "r">>)

KeyResponse ==
    Str(<<"r", "e", "s", "p", "o", "n", "s", "e">>)

KeyData ==
    Str(<<"d", "a", "t", "a">>)

KeyProjectData ==
    Str(<<"p", "r", "o", "j", "e", "c", "t", "_", "d", "a", "t", "a">>)

KeyAnalysis ==
    Str(<<"a", "n", "a", "l", "y", "s", "i", "s">>)

KeyOverallCompletes ==
    Str(<<"o", "v", "e", "r", "a", "l", "l", "_", "c", "o", "m", "p", "l", "e", "t",
    "e", "s">>)

KeyTotalQuota ==
    Str(<<"t", "o", "t", "a", "l", "_", "q", "u", "o", "t", "a">>)

KeyCompletionPercentage ==
    Str(<<"c", "o", "m", "p", "l", "e", "t", "i", "o", "n", "_", "p", "e", "r", "c",
    "e", "n", "t", "a", "g", "e">>)

MsgFailedToStart ==
    Str(<<"F", "a", "i", "l", "e", "d", " ", "t", "o", " ", "s", "t", "a", "r", "t",
    " ", "P", "y", "t", "h", "o", "n", " ", "p", "r", "o", "c", "e", "s", "s", ":",
    " ">>)

MsgFailedWithCode ==
    Str(<<"P", "y", "t", "h", "o", "n", " ", "s", "c", "r", "i", "p", "t", " ", "f",
    "a", "i", "l", "e", "d", " ", "w", "i", "t", "h", " ", "c", "o", "d", "e", " ">>)

MsgFailedToParse ==
    Str(<<"F", "a", "i", "l", "e", "d", " ", "t", "o", " ", "p", "a", "r", "s", "e",
    " ", "P", "y", "t", "h", "o", "n", " ", "o", "u", "t", "p", "u", "t", ":", " ">>)

ApologyNoData ==
    Str(<<"I", "'", "m", " ", "h", "a", "v", "i", "n", "g", " ", "t", "r", "o", "u",
    "b", "l", "e", " ", "a", "c", "c", "e", "s", "s", "i", "n", "g", " ", "t", "h",
    "e", " ", "l", "a", "t", "e", "s", "t", " ", "d", "a", "t", "a", " ", "r", "i",
    "g", "h", "t", " ", "n", "o", "w", ".", " ", "P", "l", "e", "a", "s", "e", " ",
    "t", "r", "y", " ", "a", "g", "a", "i", "n", " ", "i", "n", " ", "a", " ", "m",
    "o", "m", "e", "n", "t", ".">>)

ApologyDifficulties ==
    Str(<<"I", "'", "m", " ", "e", "x", "p", "e", "r", "i", "e", "n", "c", "i", "n",
    "g", " ", "s", "o", "m", "e", " ", "t", "e", "c", "h", "n", "i", "c", "a", "l",
    " ", "d", "i", "f", "f", "i", "c", "u", "l", "t", "i", "e", "s", ".", " ", "P",
    "l", "e", "a", "s", "e", " ", "t", "r", "y", " ", "a", "g", "a", "i", "n", " ",
    "l", "a", "t", "e", "r", ".">>)

MsgColon ==
    Str(<<":", " ">>)

MsgSyntaxErrorAt ==
    Str(<<"U", "n", "e", "x", "p", "e", "c", "t", "e", "d", " ", "t", "o", "k", "e",
    "n", " ", "i", "n", " ", "J", "S", "O", "N", " ", "a", "t", " ", "p", "o", "s",
    "i", "t", "i", "o", "n", " ">>)

TplStatus1 ==
    Str(<<"C", "u", "r", "r", "e", "n", "t", " ", "r", "e", "c", "r", "u", "i", "t",
    "m", "e", "n", "t", " ", "s", "t", "a", "t", "u", "s", ":", " ">>)

TplOutOf ==
    Str(<<" ", "o", "u", "t", " ", "o", "f", " ">>)

TplStatus3 ==
    Str(<<" ", "p", "a", "r", "t", "i", "c", "i", "p", "a", "n", "t", "s", " ", "c",
    "o", "m", "p", "l", "e", "t", "e", "d", " ", "(">>)

TplStatus4 ==
    Str(<<"%", " ", "c", "o", "m", "p", "l", "e", "t", "e", ")", ".">>)

TplProgress1 ==
    Str(<<"W", "e", "'", "v", "e", " ", "m", "a", "d", "e", " ", "g", "o", "o", "d",
    " ", "p", "r", "o", "g", "r", "e", "s", "s", "!", " ", "C", "u", "r", "r", "e",
    "n", "t", "l", "y", " ", "a", "t", " ">>)

TplProgress2 ==
    Str(<<" ", "c", "o", "m", "p", "l", "e", "t", "e", "s", " ", "o", "u", "t", " ",
    "o", "f", " ">>)

TplProgress3 ==
    Str(<<" ", "t", "a", "r", "g", "e", "t", ",", " ", "w", "h", "i", "c", "h", " ",
    "i", "s", " ">>)

TplProgress4 ==
    Str(<<"%", " ", "o", "f", " ", "o", "u", "r", " ", "g", "o", "a", "l", ".">>)

TplDefault ==
    Str(<<"H", "e", "r", "e", "'", "s", " ", "t", "h", "e", " ", "l", "a", "t", "e",
    "s", "t", " ", "u", "p", "d", "a", "t", "e", ":", " ">>)

WordStatus ==
    Str(<<"s", "t", "a", "t", "u", "s">>)

WordCurrent ==
    Str(<<"c", "u", "r", "r", "e", "n", "t">>)

WordReport ==
    Str(<<"r", "e", "p", "o", "r", "t">>)

WordLatest ==
    Str(<<"l", "a", "t", "e", "s", "t">>)

WordProgress ==
    Str(<<"p", "r", "o", "g", "r", "e", "s", "s">>)

ArgGenerateReport ==
    Str(<<"g", "e", "n", "e", "r", "a", "t", "e", "_", "r", "e", "p", "o", "r", "t">>)

ArgSendEmails ==
    Str(<<"s", "e", "n", "d", "_", "e", "m", "a", "i", "l", "s">>)

ArgInitDb ==
    Str(<<"i", "n", "i", "t", "_", "d", "b">>)

ScriptName ==
    Str(<<"w", "e", "b", "_", "i", "n", "t", "e", "g", "r", "a", "t", "i", "o", "n",
    ".", "p", "y">>)

(***************************************************************************)
(* What the environment of one invocation can be, and what the worker     *)
(* writes.                                                                 *)
(***************************************************************************)
\* The lines the worker may print on stdout.
LineSuccessTrue ==
    Str(<<"{", "\"", "s", "u", "c", "c", "e", "s", "s", "\"", ":", "t", "r", "u", "e", "}",
    "\r">>)

LineSuccessFalse ==
    Str(<<"{", "\"", "s", "u", "c", "c", "e", "s", "s", "\"", ":", "f", "a", "l", "s", "e",
    "}">>)

LineBrace ==
    Str(<<" ", "{">>)

LineEnd ==
    Str(<<"}">>)

LineLog ==
    Str(<<"o", "euro">>)

LineOpen ==
    Str(<<"[", "7", ",">>)

LineClose ==
    Str(<<"7", "]">>)

LineSet ==
    {LineSuccessTrue, LineSuccessFalse, LineBrace, LineEnd, LineLog, LineOpen, LineClose}

\* The sequences of at most n elements of S.
RECURSIVE SeqsUpTo(_, _)
SeqsUpTo(S, n) ==
    IF n = 0 THEN {<<>>}
    ELSE LET shorter == SeqsUpTo(S, n - 1)
         IN  shorter \cup {Append(q, x) : q \in shorter, x \in S}

\* The text of stdout when the worker prints the lines, each with its newline.
StdoutText(lines) == Concat([i \in DOMAIN lines |-> Append(lines[i], 10)])

\* What the worker may write on stderr.
ErrTraceback ==
    Str(<<"E">>)

ErrNoScript ==
    Str(<<"c", "a", "n", "'", "t", " ", "o", "p", "e", "n", " ", "f", "i", "l", "e">>)

SysEnoent ==
    Str(<<"s", "p", "a", "w", "n", " ", "p", "y", "t", "h", "o", "n", " ", "E", "N",
    "O", "E", "N", "T">>)

SysEacces ==
    Str(<<"s", "p", "a", "w", "n", " ", "p", "y", "t", "h", "o", "n", " ", "E", "A",
    "C", "C", "E", "S">>)

ErrTexts == {<<>>, ErrTraceback}

\* How the start of `python web_integration.py <command>` can go: the worker
\* runs ("ok"); the interpreter starts and cannot open the script
\* ("no_script"); the interpreter itself cannot be started ("ENOENT": not on
\* the PATH, "EACCES": not executable).
Causes == {"ok", "no_script", "ENOENT", "EACCES"}

SpawnFails(c) == c \in {"ENOENT", "EACCES"}

\* The message of the error of a failed spawn.
SystemErrorText(c) == IF c = "ENOENT" THEN SysEnoent ELSE SysEacces

\* The exit status (code, signal) of a 'close' event: code is null when a
\* signal ended the process.
ExitCode(n) == [isNull |-> FALSE, n |-> n]

ExitBySignal == [isNull |-> TRUE, n |-> 0]

\* The exit statuses a process that ran may end with.
ExitStatuses(c) ==
    IF c = "no_script" THEN {ExitCode(2)}
    ELSE {ExitCode(0), ExitCode(1), ExitBySignal}

\* The status of the 'close' event that follows the 'error' event of a failed
\* spawn: the negated errno.
SpawnFailStatus(c) == ExitCode(IF c = "ENOENT" THEN -2 ELSE -13)

\* The requests: the route and, for the chat, the message of the body.
ChatStatus ==
    Str(<<"S", "t", "a", "t", "u", "s", "?">>)

ChatHello ==
    Str(<<"h", "e", "l", "l", "o">>)

Routes == {"generate-report", "send-emails", "chat"}

Messages(route) ==
    IF route = "chat" THEN {Undefined, <<"str", ChatStatus>>, <<"str", ChatHello>>}
    ELSE {Undefined}

(***************************************************************************)
(* The state.                                                              *)
(***************************************************************************)
VARIABLES
    route,        \* the route of the request being handled, "none" before it
    message,      \* req.body.message of the request
    cause,        \* how the start of the worker goes
    phase,        \* where the invocation's process is
    spawnArgs,    \* the argument lists of the spawn calls made so far
    stdoutBytes,  \* everything the worker writes on stdout
    stderrBytes,  \* everything the worker writes on stderr
    outPos,       \* number of bytes of stdout delivered in 'data' events
    errPos,       \* number of bytes of stderr delivered in 'data' events
    dataString,   \* let dataString
    errorString,  \* let errorString
    closeEvents,  \* the statuses of the 'close' events delivered
    promise,      \* the promise runPythonScript returned
    outcomes,     \* the settlements of the promise, in order
    calls,        \* number of calls of resolve and of reject
    parseOf,      \* what the 'close' handler gave to JSON.parse
    response,     \* the responses sent with res.json
    server,       \* startServer: "starting", "listening" or "exited"
    store,        \* the rows of the table admin_settings
    puts,         \* the PUT /api/admin/settings requests
    getResponse,  \* the responses of GET /api/admin/settings
    procs         \* the invocations of runPythonScript in flight together

bridgeVars == <<route, message, cause, phase, spawnArgs, stdoutBytes, stderrBytes, outPos,
                errPos, dataString, errorString, closeEvents, promise, outcomes, calls,
                parseOf, response>>

startupVars == <<server>>

settingsVars == <<store, puts, getResponse>>

poolVars == <<procs>>

vars == <<bridgeVars, startupVars, settingsVars, poolVars>>

(***************************************************************************)
(* runPythonScript.                                                        *)
(***************************************************************************)
\* new Promise(...): pending.
PendingPromise == [state |-> "pending", result |-> Undefined]

\* Settle, were a later call of resolve or reject to replace the outcome.
SettleLastCallWins(p, state, result) == [state |-> state, result |-> result]

\* resolve(result) or reject(result) on promise p: the first call settles it,
\* a call on a settled promise does nothing.
Settle(p, state, result) ==
    IF p.state = "pending" THEN [state |-> state, result |-> result] ELSE p

\* ['web_integration.py', ...scriptArgs]
SpawnArguments(scriptArgs) == <<ScriptName>> \o scriptArgs

RECURSIVE LastJsonLineFrom(_, _)
\* FirstJsonLineFrom, were the loop to lack its break: the last '{' line.
LastJsonLineFrom(lines, i) ==
    IF i > Len(lines) THEN <<>>
    ELSE IF LastJsonLineFrom(lines, i + 1) # <<>> THEN LastJsonLineFrom(lines, i + 1)
    ELSE IF StartsWith(Trim(lines[i]), <<123>>) THEN Trim(lines[i])
    ELSE <<>>

RECURSIVE FirstJsonLineFrom(_, _)
\* for (const line of lines) if (line.trim().startsWith('{')) { jsonLine =
\* line.trim(); break; } from line i on; '' when there is none.
FirstJsonLineFrom(lines, i) ==
    IF i > Len(lines) THEN <<>>
    ELSE IF StartsWith(Trim(lines[i]), <<123>>) THEN Trim(lines[i])
    ELSE FirstJsonLineFrom(lines, i + 1)

\* ParseChosen, were the whole output parsed without the scan for a '{' line.
ParseChosenWholeOnly(jsonLine, data) ==
    [from |-> "whole", text |-> Trim(data), r |-> JSONParse(Trim(data))]

\* ParseChosen, were the whole output parsed when the '{' line is not JSON.
ParseChosenThenWhole(jsonLine, data) ==
    IF jsonLine # <<>> /\ JSONParse(jsonLine).ok
    THEN [from |-> "line", text |-> jsonLine, r |-> JSONParse(jsonLine)]
    ELSE [from |-> "whole", text |-> Trim(data), r |-> JSONParse(Trim(data))]

\* ParseChosen, were there no fallback to the whole output.
ParseChosenLineOnly(jsonLine, data) ==
    [from |-> "line", text |-> jsonLine, r |-> JSONParse(jsonLine)]

\* if (jsonLine) JSON.parse(jsonLine) else JSON.parse(dataString.trim())
ParseChosen(jsonLine, data) ==
    IF jsonLine # <<>>
    THEN [from |-> "line", text |-> jsonLine, r |-> JSONParse(jsonLine)]
    ELSE [from |-> "whole", text |-> Trim(data), r |-> JSONParse(Trim(data))]

\* The text the 'close' handler parses and the result of JSON.parse on it:
\* the first '{' line, or else the whole trimmed output.
ParseOutput(data) == ParseChosen(FirstJsonLineFrom(SplitLines(data), 1), data)

\* parseError.message
ParseErrorMessage(r) == MsgSyntaxErrorAt \o NatToText(r.p - 1)

\* `${code}`
ExitCodeText(status) ==
    IF status.isNull THEN JsString(JsNull) ELSE NumberToText(status.n, 0)

\* `Python script failed with code ${code}: ${errorString}`
NonZeroExitMessage(status, err) ==
    MsgFailedWithCode \o ExitCodeText(status) \o MsgColon \o err

\* `Failed to parse Python output: ${parseError.message}`
UnparsableOutputMessage(r) == MsgFailedToParse \o ParseErrorMessage(r)

\* `Failed to start Python process: ${error.message}`
SpawnFailureMessage(text) == MsgFailedToStart \o text

\* AfterParse, were the text that failed to parse put into the error.
AfterParseWithText(o) ==
    IF o.r.ok
    THEN [call |-> "resolve", arg |-> o.r.v, parse |-> o.from]
    ELSE [call |-> "reject", arg |-> UnparsableOutputMessage(o.r) \o MsgColon \o o.text,
          parse |-> o.from]

\* AfterParse, were the catch block to resolve with undefined.
AfterParseSwallowError(o) ==
    IF o.r.ok
    THEN [call |-> "resolve", arg |-> o.r.v, parse |-> o.from]
    ELSE [call |-> "resolve", arg |-> Undefined, parse |-> o.from]

\* try { ... resolve(result) } catch (parseError) { ... reject(...) }
AfterParse(o) ==
    IF o.r.ok
    THEN [call |-> "resolve", arg |-> o.r.v, parse |-> o.from]
    ELSE [call |-> "reject", arg |-> UnparsableOutputMessage(o.r), parse |-> o.from]

\* CloseHandler, were its test `!code`, which a null exit code passes too.
CloseHandlerFalsyCode(status, data, err) ==
    IF status.isNull \/ status.n = 0 THEN AfterParse(ParseOutput(data))
    ELSE [call |-> "reject", arg |-> NonZeroExitMessage(status, err), parse |-> "none"]

\* CloseHandler, were the output parsed before the exit code is looked at.
CloseHandlerParseFirst(status, data, err) ==
    IF ParseOutput(data).r.ok
    THEN [call |-> "resolve", arg |-> ParseOutput(data).r.v, parse |-> ParseOutput(data).from]
    ELSE [call |-> "reject", arg |-> NonZeroExitMessage(status, err), parse |-> "none"]

\* python.on('close', (code) => ...): the call of resolve or reject it makes,
\* and what it gave to JSON.parse.
CloseHandler(status, data, err) ==
    IF ~status.isNull /\ status.n = 0 THEN AfterParse(ParseOutput(data))
    ELSE [call |-> "reject", arg |-> NonZeroExitMessage(status, err), parse |-> "none"]

\* ErrorHandler, were it to leave the rejection to the 'close' handler by
\* rejecting with what that handler reports for a failed process.
ErrorHandlerAsExit(text) ==
    [call |-> "reject", arg |-> MsgFailedWithCode \o text, parse |-> "none"]

\* python.on('error', (error) => ...)
ErrorHandler(text) ==
    [call |-> "reject", arg |-> SpawnFailureMessage(text), parse |-> "none"]

\* The promise after the call c of resolve or reject.
AfterCall(p, c) ==
    Settle(p, IF c.call = "resolve" THEN "fulfilled" ELSE "rejected", c.arg)

\* The counts of calls after the call c.
CountCall(n, c) == [n EXCEPT ![c.call] = @ + 1]

(***************************************************************************)
(* The handlers.                                                           *)
(***************************************************************************)
\* runPythonScript([...]) of the route
ScriptArgs(r) ==
    IF r = "send-emails" THEN <<ArgSendEmails>>
    ELSE IF r = "startup" THEN <<ArgInitDb>>
    ELSE <<ArgGenerateReport>>

\* res.json(body): status 200.
Json(body) == [status |-> 200, body |-> body]

\* AdminReply, were a failure answered with status 500.
AdminReplyStatus500(p) ==
    IF p.state = "fulfilled" THEN Json(p.result)
    ELSE [status |-> 500,
          body |-> JsonObject(<< <<KeySuccess, JsFalse>>, <<KeyError, <<"str", p.result>>>> >>)]

\* POST /api/admin/generate-report and POST /api/admin/send-emails, once the
\* promise p is settled.
AdminReply(p) ==
    IF p.state = "fulfilled" THEN Json(p.result)
    ELSE Json(JsonObject(<< <<KeySuccess, JsFalse>>, <<KeyError, <<"str", p.result>>>> >>))

\* ChatTemplate, were the keywords looked for in the message as it is, and
\* progress before report.
ChatTemplateAsWritten(text) ==
    IF Includes(text, WordStatus) \/ Includes(text, WordCurrent) THEN "status"
    ELSE IF Includes(text, WordProgress) THEN "progress"
    ELSE IF Includes(text, WordReport) \/ Includes(text, WordLatest) THEN "report"
    ELSE "default"

\* The template of the chat reply: "status", "report", "progress" or "default".
ChatTemplate(text) ==
    LET lower == ToLowerCase(text)
    IN  IF Includes(lower, WordStatus) \/ Includes(lower, WordCurrent) THEN "status"
        ELSE IF Includes(lower, WordReport) \/ Includes(lower, WordLatest) THEN "report"
        ELSE IF Includes(lower, WordProgress) THEN "progress"
        ELSE "default"

\* The response text of the template t.
ChatText(result, data, t) ==
    IF t = "status"
    THEN <<"str", TplStatus1 \o JsString(Member(data, KeyOverallCompletes))
                  \o TplOutOf \o JsString(Member(data, KeyTotalQuota)) \o TplStatus3
                  \o TimesHundredToFixed1(Member(data, KeyCompletionPercentage))
                  \o TplStatus4>>
    ELSE IF t = "report" THEN Member(result, KeyAnalysis)
    ELSE IF t = "progress"
    THEN <<"str", TplProgress1 \o JsString(Member(data, KeyOverallCompletes))
                  \o TplProgress2 \o JsString(Member(data, KeyTotalQuota)) \o TplProgress3
                  \o TimesHundredToFixed1(Member(data, KeyCompletionPercentage))
                  \o TplProgress4>>
    ELSE <<"str", TplDefault \o JsString(Member(result, KeyAnalysis))>>

\* if (result.success) { ... }: reading a member of data throws when data is
\* undefined or null.
ChatSuccess(result, data, t) ==
    IF t \in {"status", "progress"} /\ IsNullish(data)
    THEN [threw |-> TRUE, body |-> Undefined]
    ELSE [threw |-> FALSE,
          body |-> JsonObject(<< <<KeySuccess, JsTrue>>,
                                 <<KeyResponse, ChatText(result, data, t)>>,
                                 <<KeyData, data>> >>)]

\* The try block of POST /api/client/chat after the await, result fulfilled:
\* [threw |-> TRUE] when it throws a TypeError, or the body it sends.
ChatTry(result, msg) ==
    IF IsNullish(result) THEN [threw |-> TRUE, body |-> Undefined]
    ELSE IF ~Truthy(Member(result, KeySuccess))
    THEN [threw |-> FALSE,
          body |-> JsonObject(<< <<KeySuccess, JsFalse>>,
                                 <<KeyResponse, <<"str", ApologyNoData>>>> >>)]
    ELSE IF msg[1] # "str" THEN [threw |-> TRUE, body |-> Undefined]
    ELSE ChatSuccess(result, Member(result, KeyProjectData), ChatTemplate(msg[2]))

\* The catch block of POST /api/client/chat.
ChatCatch ==
    Json(JsonObject(<< <<KeySuccess, JsFalse>>,
                       <<KeyResponse, <<"str", ApologyDifficulties>>>> >>))

\* The response of the try block's outcome t.
ChatAfterTry(t) == IF t.threw THEN ChatCatch ELSE Json(t.body)

\* ChatReply, were the catch block to send error.message as the admin routes do.
ChatReplyWithErrorText(p, msg) ==
    IF p.state = "rejected"
    THEN Json(JsonObject(<< <<KeySuccess, JsFalse>>, <<KeyResponse, <<"str", p.result>>>> >>))
    ELSE ChatAfterTry(ChatTry(p.result, msg))

\* POST /api/client/chat, once the promise p is settled.
ChatReply(p, msg) ==
    IF p.state = "rejected" THEN ChatCatch ELSE ChatAfterTry(ChatTry(p.result, msg))

(***************************************************************************)
(* The settings: GET and PUT /api/admin/settings on the table              *)
(* admin_settings, whose key is setting_key.                               *)
(***************************************************************************)
\* The number of PUT requests of a behaviour.
MaxPuts == 2

RECURSIVE QuoteFrom(_, _)
\* The characters of s from position i on, escaped as JSON.stringify escapes
\* the characters of a string.
QuoteFrom(s, i) ==
    IF i > Len(s) THEN <<>>
    ELSE (IF s[i] \in {34, 92} THEN <<92, s[i]>>
          ELSE IF s[i] = 8 THEN <<92, 98>>
          ELSE IF s[i] = 9 THEN <<92, 116>>
          ELSE IF s[i] = 10 THEN <<92, 110>>
          ELSE IF s[i] = 12 THEN <<92, 102>>
          ELSE IF s[i] = 13 THEN <<92, 114>>
          ELSE IF s[i] < 32
          THEN <<92, 117, 48, 48, 48 + (s[i] \div 16)>>
               \o (IF s[i] % 16 < 10 THEN <<48 + (s[i] % 16)>> ELSE <<87 + (s[i] % 16)>>)
          ELSE <<s[i]>>)
         \o QuoteFrom(s, i + 1)

RECURSIVE JSONStringify(_)
RECURSIVE StringifyElements(_, _)
RECURSIVE StringifyMembers(_, _)

\* The elements of an array from the i-th on, separated by commas.
StringifyElements(vs, i) ==
    IF i > Len(vs) THEN <<>>
    ELSE (IF i > 1 THEN <<44>> ELSE <<>>) \o JSONStringify(vs[i]) \o StringifyElements(vs, i + 1)

\* The members of an object from the i-th on, separated by commas.
StringifyMembers(ms, i) ==
    IF i > Len(ms) THEN <<>>
    ELSE (IF i > 1 THEN <<44>> ELSE <<>>)
         \o <<34>> \o QuoteFrom(ms[i][1], 1) \o <<34, 58>> \o JSONStringify(ms[i][2])
         \o StringifyMembers(ms, i + 1)

\* JSON.stringify(v) of a JSON value.
JSONStringify(v) ==
    IF v[1] = "str" THEN <<34>> \o QuoteFrom(v[2], 1) \o <<34>>
    ELSE IF v[1] = "arr" THEN <<91>> \o StringifyElements(v[2], 1) \o <<93>>
    ELSE IF v[1] = "obj" THEN <<123>> \o StringifyMembers(v[2], 1) \o <<125>>
    ELSE JsString(v)

\* Array.isArray(value) || typeof value === 'object' ? JSON.stringify(value)
\* : String(value)    (typeof null is 'object')
ValueStr(value) ==
    IF value[1] \in {"arr", "obj"} \/ value = JsNull THEN JSONStringify(value)
    ELSE JsString(value)

\* INSERT OR REPLACE INTO admin_settings ...: the row of the key, if there is
\* one, is deleted, and the new row is added.  A row also records the request
\* and the value it was written from.
Upsert(rows, key, value, id) ==
    Append(SelectSeq(rows, LAMBDA r : r.key # key),
           [key |-> key, value |-> ValueStr(value), from |-> value, by |-> id])

\* The value GET gives for a stored text: JSON.parse of it when it starts with
\* '[' or '{' and parses, the text when it does not start so or JSON.parse
\* throws.
DecodeValue(text, r) ==
    IF (StartsWith(text, <<91>>) \/ StartsWith(text, <<123>>)) /\ r.ok THEN r.v
    ELSE <<"str", text>>

RECURSIVE DecodeRows(_, _, _)
\* rows.forEach(row => ...) from the i-th row on.
DecodeRows(rows, i, settings) ==
    IF i > Len(rows) THEN settings
    ELSE DecodeRows(rows, i + 1,
             PutMember(settings, rows[i].key,
                       DecodeValue(rows[i].value, JSONParse(rows[i].value))))

KeySettings ==
    Str(<<"s", "e", "t", "t", "i", "n", "g", "s">>)

\* err.message of a failed statement.
MsgDbError ==
    Str(<<"S", "Q", "L", "I", "T", "E", "_", "B", "U", "S", "Y">>)

\* The message of the TypeError of Object.entries(undefined).
MsgNoEntries ==
    Str(<<"C", "a", "n", "n", "o", "t", " ", "c", "o", "n", "v", "e", "r", "t", " ", "u", "n",
    "d", "e", "f", "i", "n", "e", "d", " ", "o", "r", " ", "n", "u", "l", "l", " ", "t", "o",
    " ", "o", "b", "j", "e", "c", "t">>)

\* res.json({ success: false, error: error.message })
FailureReply(text) ==
    Json(JsonObject(<< <<KeySuccess, JsFalse>>, <<KeyError, <<"str", text>>>> >>))

\* GET /api/admin/settings: ok if the SELECT succeeds.
GetReply(ok, rows) ==
    IF ok
    THEN Json(JsonObject(<< <<KeySuccess, JsTrue>>,
                            <<KeySettings, <<"obj", DecodeRows(rows, 1, <<>>)>>>> >>))
    ELSE FailureReply(MsgDbError)

\* PutStep, were the statements of a request run in one transaction that a
\* failed statement rolls back.
PutStepInTransaction(p, id, rows, ok) ==
    IF IsNullish(p.settings)
    THEN [put |-> [p EXCEPT !.response = <<FailureReply(MsgNoEntries)>>], rows |-> rows]
    ELSE IF p.next > Len(p.settings[2])
    THEN [put |-> [p EXCEPT !.response = <<Json(JsonObject(<< <<KeySuccess, JsTrue>> >>))>>],
          rows |-> rows]
    ELSE IF ok
    THEN [put |-> [p EXCEPT !.next = @ + 1],
          rows |-> Upsert(rows, p.settings[2][p.next][1], p.settings[2][p.next][2], id)]
    ELSE [put |-> [p EXCEPT !.response = <<FailureReply(MsgDbError)>>],
          rows |-> SelectSeq(rows, LAMBDA r : r.by # id)]

\* One step of the handler of PUT /api/admin/settings for the request p, the
\* id-th: Object.entries throws, or the loop is over and the success is sent,
\* or the statement of the next entry is run and awaited; ok if it succeeds.
PutStep(p, id, rows, ok) ==
    IF IsNullish(p.settings)
    THEN [put |-> [p EXCEPT !.response = <<FailureReply(MsgNoEntries)>>], rows |-> rows]
    ELSE IF p.next > Len(p.settings[2])
    THEN [put |-> [p EXCEPT !.response = <<Json(JsonObject(<< <<KeySuccess, JsTrue>> >>))>>],
          rows |-> rows]
    ELSE IF ok
    THEN [put |-> [p EXCEPT !.next = @ + 1],
          rows |-> Upsert(rows, p.settings[2][p.next][1], p.settings[2][p.next][2], id)]
    ELSE [put |-> [p EXCEPT !.response = <<FailureReply(MsgDbError)>>], rows |-> rows]

\* The keys and the values of the settings that are sent.
SettingKeys == {Str(<<"a">>), Str(<<"b">>)}

SettingValues ==
    { <<"num", 7, 0>>,
      <<"str", Str(<<"[", "7", "]">>)>>,
      <<"str", Str(<<"{", "x">>)>>,
      <<"arr", << <<"num", 7, 0>> >> >>,
      <<"obj", << <<Str(<<"k">>), <<"str", Str(<<"v">>)>> >> >> >> }

\* The number of entries of the settings of a request.
MaxEntries == 2

\* The values of the settings of a request with several entries.
SeveralValues == { <<"num", 7, 0>>, <<"arr", << <<"num", 7, 0>> >> >> }

\* req.body.settings: missing, or an object: with one entry of any value, or
\* with up to MaxEntries entries.
SettingsBodies ==
    {Undefined}
    \cup { <<"obj", <<e>> >> : e \in SettingKeys \X SettingValues }
    \cup { <<"obj", es>> : es \in { e \in SeqsUpTo(SettingKeys \X SeveralValues, MaxEntries) :
                                      \A i, j \in DOMAIN e : i # j => e[i][1] # e[j][1] } }

(***************************************************************************)
(* The actions.                                                            *)
(***************************************************************************)
\* No request has arrived and runPythonScript has not been called.
Quiet ==
    /\ route = "none"
    /\ message = Undefined
    /\ cause = "ok"
    /\ phase = "Idle"
    /\ spawnArgs = <<>>
    /\ stdoutBytes = <<>>
    /\ stderrBytes = <<>>
    /\ outPos = 0
    /\ errPos = 0
    /\ dataString = <<>>
    /\ errorString = <<>>
    /\ closeEvents = <<>>
    /\ promise = PendingPromise
    /\ outcomes = <<>>
    /\ calls = [resolve |-> 0, reject |-> 0]
    /\ parseOf = "none"
    /\ response = <<>>
    /\ store = <<>>
    /\ puts = <<>>
    /\ getResponse = <<>>
    /\ procs = <<>>

\* The server is listening; no request has arrived yet.
Init == Quiet /\ server = "listening"

\* A request arrives at route r with message m; its handler calls
\* runPythonScript, which spawns the worker.  c is how the start goes, lines
\* and err what the worker writes if it runs.
Request(r, m, c, lines, err) ==
    /\ phase = "Idle"
    /\ route' = r
    /\ message' = m
    /\ cause' = c
    /\ spawnArgs' = Append(spawnArgs, SpawnArguments(ScriptArgs(r)))
    /\ stdoutBytes' = IF c = "ok" THEN Utf8Encode(StdoutText(lines)) ELSE <<>>
    /\ stderrBytes' = IF c = "ok" THEN Utf8Encode(err)
                      ELSE IF c = "no_script" THEN Utf8Encode(ErrNoScript)
                      ELSE <<>>
    /\ phase' = IF SpawnFails(c) THEN "SpawnFailed" ELSE "Running"
    /\ UNCHANGED <<outPos, errPos, dataString, errorString, closeEvents, promise,
                   outcomes, calls, parseOf, response>>
    /\ UNCHANGED <<startupVars, settingsVars, poolVars>>

\* python.stdout.on('data', ...): the next k bytes of stdout arrive as a chunk.
OnStdoutData(k) ==
    /\ phase = "Running"
    /\ outPos + k <= Len(stdoutBytes)
    /\ dataString' = dataString \o ToStringUtf8(SubSeq(stdoutBytes, outPos + 1, outPos + k))
    /\ outPos' = outPos + k
    /\ UNCHANGED <<route, message, cause, phase, spawnArgs, stdoutBytes, stderrBytes,
                   errPos, errorString, closeEvents, promise, outcomes, calls, parseOf,
                   response>>
    /\ UNCHANGED <<startupVars, settingsVars, poolVars>>

\* python.stderr.on('data', ...): the next k bytes of stderr arrive as a chunk.
OnStderrData(k) ==
    /\ phase = "Running"
    /\ errPos + k <= Len(stderrBytes)
    /\ errorString' = errorString \o ToStringUtf8(SubSeq(stderrBytes, errPos + 1, errPos + k))
    /\ errPos' = errPos + k
    /\ UNCHANGED <<route, message, cause, phase, spawnArgs, stdoutBytes, stderrBytes,
                   outPos, dataString, closeEvents, promise, outcomes, calls, parseOf,
                   response>>
    /\ UNCHANGED <<startupVars, settingsVars, poolVars>>

\* The handler of a process event makes the call c of resolve or reject.
Call(c) ==
    /\ promise' = AfterCall(promise, c)
    /\ outcomes' = IF promise' # promise THEN Append(outcomes, promise') ELSE outcomes
    /\ calls' = CountCall(calls, c)
    /\ parseOf' = c.parse

\* OnError, were a failed spawn tried again.
OnErrorRetry ==
    /\ phase = "SpawnFailed"
    /\ phase' = "Running"
    /\ spawnArgs' = Append(spawnArgs, SpawnArguments(ScriptArgs(route)))
    /\ UNCHANGED <<route, message, cause, stdoutBytes, stderrBytes, outPos, errPos,
                   dataString, errorString, closeEvents, promise, outcomes, calls,
                   parseOf, response>>
    /\ UNCHANGED <<startupVars, settingsVars, poolVars>>

\* 'error': the spawn failed.
OnError ==
    /\ phase = "SpawnFailed"
    /\ phase' = "Errored"
    /\ Call(ErrorHandler(SystemErrorText(cause)))
    /\ UNCHANGED <<route, message, cause, spawnArgs, stdoutBytes, stderrBytes, outPos,
                   errPos, dataString, errorString, closeEvents, response>>
    /\ UNCHANGED <<startupVars, settingsVars, poolVars>>

\* 'close': the process has ended and its streams are closed, or the streams
\* of the process that never started are closed.
OnClose(status) ==
    /\ \/ /\ phase = "Running"
          /\ outPos = Len(stdoutBytes)
          /\ errPos = Len(stderrBytes)
          /\ status \in ExitStatuses(cause)
       \/ /\ phase = "Errored"
          /\ status = SpawnFailStatus(cause)
    /\ phase' = "Closed"
    /\ closeEvents' = Append(closeEvents, status)
    /\ Call(CloseHandler(status, dataString, errorString))
    /\ UNCHANGED <<route, message, cause, spawnArgs, stdoutBytes, stderrBytes, outPos,
                   errPos, dataString, errorString, response>>
    /\ UNCHANGED <<startupVars, settingsVars, poolVars>>

\* Respond, were the handler to give up waiting and answer a pending
\* invocation.
RespondOnTimeout ==
    /\ route # "none"
    /\ response = <<>>
    /\ response' = Append(response,
                          IF promise.state = "pending" THEN FailureReply(<<>>)
                          ELSE IF route = "chat" THEN ChatReply(promise, message)
                          ELSE AdminReply(promise))
    /\ UNCHANGED <<route, message, cause, phase, spawnArgs, stdoutBytes, stderrBytes,
                   outPos, errPos, dataString, errorString, closeEvents, promise,
                   outcomes, calls, parseOf>>
    /\ UNCHANGED <<startupVars, settingsVars, poolVars>>

\* The handler resumes after its await and sends the response.
Respond ==
    /\ promise.state # "pending"
    /\ response = <<>>
    /\ response' = Append(response, IF route = "chat" THEN ChatReply(promise, message)
                                    ELSE AdminReply(promise))
    /\ UNCHANGED <<route, message, cause, phase, spawnArgs, stdoutBytes, stderrBytes,
                   outPos, errPos, dataString, errorString, closeEvents, promise,
                   outcomes, calls, parseOf>>
    /\ UNCHANGED <<startupVars, settingsVars, poolVars>>

\* The sizes of the next chunk of a stream with n bytes left.
ChunkSizes(n) == {k \in 1..n : k <= MaxChunk \/ k = n}

AllStatuses == {ExitCode(0), ExitCode(1), ExitCode(2), ExitBySignal, ExitCode(-2), ExitCode(-13)}

\* The requests that may arrive.
NewRequest ==
    /\ phase = "Idle"
    /\ \E r \in Routes : \E m \in Messages(r) : \E c \in Causes :
         \E lines \in (IF c = "ok" THEN SeqsUpTo(LineSet, MaxLines) ELSE {<<>>}) :
           \E err \in (IF c = "ok" THEN ErrTexts ELSE {<<>>}) :
             Request(r, m, c, lines, err)

\* The chunks that may arrive.
StdoutData ==
    /\ phase = "Running"
    /\ \E k \in ChunkSizes(Len(stdoutBytes) - outPos) : OnStdoutData(k)

StderrData ==
    /\ phase = "Running"
    /\ \E k \in ChunkSizes(Len(stderrBytes) - errPos) : OnStderrData(k)

\* The 'close' events that may arrive.
Close ==
    /\ phase \in {"Running", "Errored"}
    /\ \E status \in AllStatuses : OnClose(status)

Next ==
    \/ NewRequest
    \/ StdoutData
    \/ StderrData
    \/ OnError
    \/ Close
    \/ Respond

Spec == Init /\ [][Next]_vars

(***************************************************************************)
(* The actions of the settings routes.                                     *)
(***************************************************************************)
\* A PUT /api/admin/settings request arrives.
PutRequest(body) ==
    /\ Len(puts) < MaxPuts
    /\ puts' = Append(puts, [settings |-> body, next |-> 1, response |-> <<>>])
    /\ UNCHANGED <<bridgeVars, startupVars, store, getResponse, poolVars>>

\* The handler of the id-th PUT request takes its next step.
PutAdvance(id, ok) ==
    /\ puts[id].response = <<>>
    /\ puts' = [puts EXCEPT ![id] = PutStep(puts[id], id, store, ok).put]
    /\ store' = PutStep(puts[id], id, store, ok).rows
    /\ UNCHANGED <<bridgeVars, startupVars, getResponse, poolVars>>

\* GET /api/admin/settings; the rows it read are kept with the response.
Get(ok) ==
    /\ getResponse' = <<[reply |-> GetReply(ok, store), rows |-> store]>>
    /\ UNCHANGED <<bridgeVars, startupVars, store, puts, poolVars>>

SettingsNext ==
    \/ \E body \in SettingsBodies : PutRequest(body)
    \/ \E id \in DOMAIN puts : \E ok \in BOOLEAN : PutAdvance(id, ok)
    \/ \E ok \in BOOLEAN : Get(ok)

SettingsSpec == Init /\ [][SettingsNext]_vars

(***************************************************************************)
(* Several invocations of runPythonScript in flight together.  Each call   *)
(* runs the executor of its own promise: its own process, its own          *)
(* dataString and errorString, its own handlers.                           *)
(***************************************************************************)
\* The number of invocations of a behaviour.
MaxProcs == 2

\* What the worker of one of several invocations prints on stdout.
PoolOutputs == {<<>>, <<LineLog>>, <<LineOpen, LineClose>>}

\* The invocation a call runPythonScript(scriptArgs) starts: one spawn.  own
\* records the text of the 'data' events of the invocation's own process, and
\* others the number of invocations in flight when this one starts.
NewProc(scriptArgs, c, lines, err, n) ==
    [spawned |-> <<SpawnArguments(scriptArgs)>>,
     others |-> n,
     cause |-> c,
     stdoutBytes |-> IF c = "ok" THEN Utf8Encode(StdoutText(lines)) ELSE <<>>,
     stderrBytes |-> IF c = "ok" THEN Utf8Encode(err) ELSE <<>>,
     outPos |-> 0,
     errPos |-> 0,
     dataString |-> <<>>,
     errorString |-> <<>>,
     phase |-> IF SpawnFails(c) THEN "SpawnFailed" ELSE "Running",
     closeEvents |-> <<>>,
     promise |-> PendingPromise,
     own |-> [dataString |-> <<>>, errorString |-> <<>>]]

\* AppendOwn, were dataString and errorString variables of the module, one
\* for all invocations.
AppendShared(ps, i, buffer, text) ==
    [j \in DOMAIN ps |-> [ps[j] EXCEPT ![buffer] = @ \o text]]

\* dataString += text or errorString += text in the 'data' handler of the
\* i-th invocation.
AppendOwn(ps, i, buffer, text) ==
    [ps EXCEPT ![i][buffer] = @ \o text]

\* The 'data' event of the i-th invocation with the next k bytes of a stream.
PoolData(i, buffer, bytes, pos, k) ==
    /\ procs[i].phase = "Running"
    /\ procs[i][pos] + k <= Len(procs[i][bytes])
    /\ LET text == ToStringUtf8(SubSeq(procs[i][bytes], procs[i][pos] + 1, procs[i][pos] + k))
       IN  procs' = [AppendOwn(procs, i, buffer, text) EXCEPT
                       ![i][pos] = @ + k,
                       ![i].own[buffer] = @ \o text]
    /\ UNCHANGED <<bridgeVars, startupVars, settingsVars>>

\* runPythonScript(scriptArgs) is called, whatever the other invocations do.
PoolCall(scriptArgs, c, lines, err) ==
    /\ Len(procs) < MaxProcs
    /\ procs' = Append(procs, NewProc(scriptArgs, c, lines, err,
                                       Cardinality({j \in DOMAIN procs :
                                                      procs[j].phase # "Closed"})))
    /\ UNCHANGED <<bridgeVars, startupVars, settingsVars>>

PoolStdout(i, k) == PoolData(i, "dataString", "stdoutBytes", "outPos", k)

PoolStderr(i, k) == PoolData(i, "errorString", "stderrBytes", "errPos", k)

\* The 'error' event of the i-th invocation.
PoolError(i) ==
    /\ procs[i].phase = "SpawnFailed"
    /\ procs' = [procs EXCEPT
                   ![i].phase = "Errored",
                   ![i].promise = AfterCall(@, ErrorHandler(SystemErrorText(procs[i].cause)))]
    /\ UNCHANGED <<bridgeVars, startupVars, settingsVars>>

\* The 'close' event of the i-th invocation.
PoolClose(i, status) ==
    /\ \/ /\ procs[i].phase = "Running"
          /\ procs[i].outPos = Len(procs[i].stdoutBytes)
          /\ procs[i].errPos = Len(procs[i].stderrBytes)
          /\ status \in ExitStatuses(procs[i].cause)
       \/ /\ procs[i].phase = "Errored"
          /\ status = SpawnFailStatus(procs[i].cause)
    /\ procs' = [procs EXCEPT
                   ![i].phase = "Closed",
                   ![i].closeEvents = Append(@, status),
                   ![i].promise = AfterCall(@, CloseHandler(status, procs[i].dataString,
                                                            procs[i].errorString))]
    /\ UNCHANGED <<bridgeVars, startupVars, settingsVars>>

PoolNext ==
    \/ \E a \in {ArgGenerateReport, ArgSendEmails} : \E c \in Causes \ {"no_script"} :
         \E lines \in (IF c = "ok" THEN PoolOutputs ELSE {<<>>}) :
           \E err \in (IF c = "ok" THEN ErrTexts ELSE {<<>>}) :
             PoolCall(<<a>>, c, lines, err)
    \/ \E i \in DOMAIN procs :
         \E k \in ChunkSizes(Len(procs[i].stdoutBytes) - procs[i].outPos) : PoolStdout(i, k)
    \/ \E i \in DOMAIN procs :
         \E k \in ChunkSizes(Len(procs[i].stderrBytes) - procs[i].errPos) : PoolStderr(i, k)
    \/ \E i \in DOMAIN procs : PoolError(i)
    \/ \E i \in DOMAIN procs : \E status \in AllStatuses : PoolClose(i, status)

PoolSpec == Init /\ [][PoolNext]_vars

(***************************************************************************)
(* The start of the server.                                                *)
(***************************************************************************)
\* InitializeDatabase, were its catch to pass the failure on.
InitializeDatabaseRejects(p) ==
    IF p.state = "fulfilled" THEN [state |-> "fulfilled", result |-> Undefined]
    ELSE [state |-> "rejected", result |-> p.result]

\* initializeDatabase(): the promise it returns, once the promise p of
\* runPythonScript(['init_db']) is settled: .then(() => resolve()) and
\* .catch(() => resolve()).
InitializeDatabase(p) ==
    IF p.state = "fulfilled" THEN [state |-> "fulfilled", result |-> Undefined]
    ELSE [state |-> "fulfilled", result |-> Undefined]

\* startServer after await initializeDatabase(), whose promise q is settled:
\* app.listen(PORT, ...), or the catch with process.exit(1).
AfterInitializeDatabase(q) == IF q.state = "fulfilled" THEN "listening" ELSE "exited"

\* startServer() is called.
StartupInit == Quiet /\ server = "starting"

\* startServer calls initializeDatabase, which calls runPythonScript(['init_db']).
StartServer ==
    /\ phase = "Idle"
    /\ server = "starting"
    /\ \E c \in Causes :
         \E lines \in (IF c = "ok" THEN SeqsUpTo(LineSet, MaxLines) ELSE {<<>>}) :
           \E err \in (IF c = "ok" THEN ErrTexts ELSE {<<>>}) :
             Request("startup", Undefined, c, lines, err)

\* startServer resumes after its await.
StartServerResume ==
    /\ server = "starting"
    /\ promise.state # "pending"
    /\ server' = AfterInitializeDatabase(InitializeDatabase(promise))
    /\ UNCHANGED <<bridgeVars, settingsVars, poolVars>>

StartupNext ==
    \/ StartServer
    \/ StdoutData
    \/ StderrData
    \/ OnError
    \/ Close
    \/ StartServerResume

\* A function that awaits a settled promise is resumed.
StartupSpec == StartupInit /\ [][StartupNext]_vars /\ WF_vars(StartServerResume)

(***************************************************************************)
(* The chat with a worker that reports.                                    *)
(***************************************************************************)
\* The reports the worker may print for generate_report.
LineReport ==
    Str(<<"{", "\"", "s", "u", "c", "c", "e", "s", "s", "\"", ":", "t", "r", "u", "e",
    ",", "\"", "p", "r", "o", "j", "e", "c", "t", "_", "d", "a", "t", "a", "\"", ":",
    "{", "\"", "o", "v", "e", "r", "a", "l", "l", "_", "c", "o", "m", "p", "l", "e",
    "t", "e", "s", "\"", ":", "4", "5", ",", "\"", "t", "o", "t", "a", "l", "_", "q",
    "u", "o", "t", "a", "\"", ":", "1", "0", "0", ",", "\"", "c", "o", "m", "p", "l",
    "e", "t", "i", "o", "n", "_", "p", "e", "r", "c", "e", "n", "t", "a", "g", "e",
    "\"", ":", "0", ".", "4", "5", "}", ",", "\"", "a", "n", "a", "l", "y", "s", "i",
    "s", "\"", ":", "\"", "o", "k", "\"", "}">>)

LineReportNoData ==
    Str(<<"{", "\"", "s", "u", "c", "c", "e", "s", "s", "\"", ":", "t", "r", "u", "e",
    ",", "\"", "a", "n", "a", "l", "y", "s", "i", "s", "\"", ":", "\"", "o", "k", "\"",
    "}">>)

LineReportNoAnalysis ==
    Str(<<"{", "\"", "s", "u", "c", "c", "e", "s", "s", "\"", ":", "1", ",", "\"", "p",
    "r", "o", "j", "e", "c", "t", "_", "d", "a", "t", "a", "\"", ":", "{", "\"", "o",
    "v", "e", "r", "a", "l", "l", "_", "c", "o", "m", "p", "l", "e", "t", "e", "s",
    "\"", ":", "7", ",", "\"", "t", "o", "t", "a", "l", "_", "q", "u", "o", "t", "a",
    "\"", ":", "8", ",", "\"", "c", "o", "m", "p", "l", "e", "t", "i", "o", "n", "_",
    "p", "e", "r", "c", "e", "n", "t", "a", "g", "e", "\"", ":", "0", ".", "8", "7",
    "5", "}", "}">>)

ChatReports == {LineReport, LineReportNoData, LineReportNoAnalysis}

\* The size of the chunks in which the report arrives.
PipeChunk == 24

\* The messages of the chat.
ChatCurrentReport ==
    Str(<<"m", "y", " ", "C", "U", "R", "R", "E", "N", "T", " ", "r", "e", "p", "o",
    "r", "t">>)

ChatLatestProgress ==
    Str(<<"L", "a", "t", "e", "s", "t", " ", "p", "r", "o", "g", "r", "e", "s", "s">>)

ChatProgress ==
    Str(<<"P", "R", "O", "G", "R", "E", "S", "S">>)

ChatReport ==
    Str(<<"r", "e", "p", "o", "r", "t">>)

ChatMessages ==
    {ChatStatus, ChatHello, ChatCurrentReport, ChatLatestProgress, ChatProgress, ChatReport}

\* A chat message arrives; the worker runs and prints a report.
ChatAsk ==
    /\ phase = "Idle"
    /\ \E m \in ChatMessages : \E line \in ChatReports :
         Request("chat", <<"str", m>>, "ok", <<line>>, <<>>)

\* The report arrives in chunks of PipeChunk bytes or of half as many, the
\* last one shorter.
ChatData ==
    /\ phase = "Running"
    /\ \E k \in {n \in 1..PipeChunk : \/ n \in {PipeChunk, PipeChunk \div 2}
                                       \/ n = Len(stdoutBytes) - outPos} :
         OnStdoutData(k)

ChatNext ==
    \/ ChatAsk
    \/ ChatData
    \/ Close
    \/ Respond

ChatSpec == Init /\ [][ChatNext]_vars

(***************************************************************************)
(* What the claims speak of.                                               *)
(***************************************************************************)
\* The worker process started, and its 'close' event has been handled.
Ran == phase = "Closed" /\ ~SpawnFails(cause)

\* The process ran and closed with exit code n.
ExitedWith(n) == Ran /\ closeEvents = <<ExitCode(n)>>

\* The lines of the accumulated stdout.
OutLines == SplitLines(dataString)

\* The trimmed content of the line starts with '{'.
IsBraceLine(line) == StartsWith(Trim(line), <<123>>)

\* The lines of stdout whose trimmed content starts with '{'.
BraceLines == {i \in DOMAIN OutLines : IsBraceLine(OutLines[i])}

\* The line is a valid JSON object.
IsJsonObjectLine(line) == JSONParse(line).ok /\ JSONParse(line).v[1] = "obj"

\* The line is not JSON.
IsNonJsonLine(line) == ~JSONParse(line).ok

\* Line i of stdout is a valid JSON object, and every other line is not JSON.
SingleJsonLine(i) ==
    /\ IsJsonObjectLine(OutLines[i])
    /\ \A j \in DOMAIN OutLines \ {i} : IsNonJsonLine(OutLines[j])

Fulfilled(v) == [state |-> "fulfilled", result |-> v]

Rejected(text) == [state |-> "rejected", result |-> text]

\* The body { success: false, response: text } of the chat.
ApologyBody(text) == <<"obj", << <<KeySuccess, JsFalse>>, <<KeyResponse, <<"str", text>>>> >> >>

\* The body { success: false, error: text } of the admin routes.
ErrorBody(text) == <<"obj", << <<KeySuccess, JsFalse>>, <<KeyError, <<"str", text>>>> >> >>

\* The logical value of a value written to the settings: an array or an object
\* as it is, a scalar as its string.
LogicalValue(v) == IF v[1] \in {"arr", "obj"} THEN v ELSE <<"str", JsString(v)>>

\* The i-th PUT request has been answered, with success s.
PutAnswered(i, s) ==
    /\ i \in DOMAIN puts
    /\ puts[i].response # <<>>
    /\ Member(puts[i].response[1].body, KeySuccess) = s

\* "45 out of 100"
TextFigures ==
    Str(<<"4", "5", " ", "o", "u", "t", " ", "o", "f", " ", "1", "0", "0">>)

\* "45.0%"
TextPercent ==
    Str(<<"4", "5", ".", "0", "%">>)

\* The worker's report with 45 completes of a quota of 100, 0.45 complete.
ReportFigures ==
    <<"obj", << <<KeyOverallCompletes, <<"num", 45, 0>> >>,
                <<KeyTotalQuota, <<"num", 100, 0>> >>,
                <<KeyCompletionPercentage, <<"num", 45, 2>> >> >> >>

\* The text ends with the part.
EndsWith(text, part) ==
    /\ Len(part) <= Len(text)
    /\ SubSeq(text, Len(text) - Len(part) + 1, Len(text)) = part

\* The state of the invocation in the state machine of the bridge.  The spawn
\* is over within the call, so that "Spawning" is seen only when it failed and
\* the 'error' event has not been delivered yet; "Exited" is passed within the
\* 'close' handler.
BridgeState ==
    IF phase = "Idle" THEN "Idle"
    ELSE IF promise.state = "pending"
    THEN (IF phase = "Running" THEN "Running" ELSE "Spawning")
    ELSE IF promise.state = "fulfilled" THEN "Parsed"
    ELSE IF StartsWith(promise.result, MsgFailedToStart) THEN "SpawnFailed"
    ELSE IF StartsWith(promise.result, MsgFailedWithCode) THEN "ExitRejected"
    ELSE "ParseFailed"

\* The transitions of the state machine, "Exited" passed over.
BridgeTransitions ==
    { <<"Idle", "Spawning">>, <<"Idle", "Running">>, <<"Spawning", "Running">>,
      <<"Spawning", "SpawnFailed">>, <<"Running", "Parsed">>,
      <<"Running", "ExitRejected">>, <<"Running", "ParseFailed">> }

(***************************************************************************)
(* C1.  Every invocation has exactly one terminal outcome: until 'error'   *)
(* or 'close' is handled the promise is pending; from then on it is        *)
(* settled, fulfilled or rejected, once and for all, however many calls of *)
(* resolve and reject the handlers make ('error' followed by 'close'       *)
(* makes two).                                                             *)
(***************************************************************************)
C1_ExactlyOneOutcome ==
    /\ Len(outcomes) <= 1
    /\ phase \in {"Idle", "Running", "SpawnFailed"}
         => promise.state = "pending" /\ outcomes = <<>> /\ calls.resolve + calls.reject = 0
    /\ phase \in {"Errored", "Closed"}
         => /\ promise.state \in {"fulfilled", "rejected"}
            /\ outcomes = <<promise>>
            /\ calls.resolve + calls.reject =
                 (IF SpawnFails(cause) THEN 1 ELSE 0) + Len(closeEvents)
    /\ Len(response) <= 1

\* 'error' was followed by 'close': reject was called twice, one outcome.
C1_Witness ==
    /\ phase = "Closed"
    /\ SpawnFails(cause)
    /\ calls.reject = 2
    /\ Len(outcomes) = 1

(***************************************************************************)
(* C2.  When the worker process closes with an exit code other than 0,     *)
(* the promise is rejected with "Python script failed with code <code>:    *)
(* <stderr>", <stderr> being all of the accumulated stderr, and stdout is  *)
(* not parsed, whatever it holds.                                          *)
(***************************************************************************)
C2_NonZeroExitRejects ==
    \A n \in {1, 2} :
        ExitedWith(n)
          => /\ promise = Rejected(MsgFailedWithCode \o NatToText(n) \o MsgColon \o errorString)
             /\ errPos = Len(stderrBytes)
             /\ parseOf = "none"
             /\ calls.resolve = 0

\* Exit code 1 with a stdout that is a valid JSON object line with success: true
\* and a stderr that is not empty.
C2_Witness ==
    /\ ExitedWith(1)
    /\ errorString # <<>>
    /\ JSONParse(dataString).ok
    /\ Member(JSONParse(dataString).v, KeySuccess) = JsTrue
    /\ promise.state = "rejected"

(***************************************************************************)
(* C3.  As claimed: with exit code 0 and a stdout of exactly one valid     *)
(* JSON object line among lines that are not JSON, the promise is          *)
(* fulfilled with the parse of that line.                                  *)
(***************************************************************************)
C3_SingleJsonLineAnywhere ==
    ExitedWith(0)
      => \A i \in DOMAIN OutLines :
           SingleJsonLine(i) => promise = Fulfilled(JSONParse(OutLines[i]).v)

(***************************************************************************)
(* C3, amended.  With exit code 0 and a stdout of exactly one valid JSON   *)
(* object line among lines that are not JSON, none of the lines before it  *)
(* having a trimmed content that starts with '{', the promise is fulfilled *)
(* with the parse of that line.                                            *)
(***************************************************************************)
C3_SingleJsonLineFirstBrace ==
    ExitedWith(0)
      => \A i \in DOMAIN OutLines :
           (SingleJsonLine(i) /\ \A j \in 1..(i - 1) : ~IsBraceLine(OutLines[j]))
             => promise = Fulfilled(JSONParse(OutLines[i]).v)

\* The JSON line has a line before it and a line that is not empty after it.
C3_Witness ==
    /\ ExitedWith(0)
    /\ Len(OutLines) >= 3
    /\ SingleJsonLine(2)
    /\ ~IsBraceLine(OutLines[1])
    /\ OutLines[3] # <<>>
    /\ promise = Fulfilled(JSONParse(OutLines[2]).v)

(***************************************************************************)
(* C4.  With exit code 0 and two or more lines whose trimmed content       *)
(* starts with '{', the line parsed is the earliest of them: the promise   *)
(* is fulfilled with its parse if it is JSON and rejected if it is not,    *)
(* whatever the later lines hold.                                          *)
(***************************************************************************)
C4_EarliestBraceLineWins ==
    (ExitedWith(0) /\ Cardinality(BraceLines) >= 2)
      => LET first == CHOOSE i \in BraceLines : \A j \in BraceLines : i <= j
             r == JSONParse(Trim(OutLines[first]))
         IN  /\ parseOf = "line"
             /\ r.ok => promise = Fulfilled(r.v)
             /\ ~r.ok => promise.state = "rejected"

\* Two '{' lines that are both JSON, with different values: the first one's
\* value is the result.
C4_Witness ==
    /\ ExitedWith(0)
    /\ Cardinality(BraceLines) = 2
    /\ \A i \in BraceLines : JSONParse(Trim(OutLines[i])).ok
    /\ \E i, j \in BraceLines :
         /\ i < j
         /\ JSONParse(Trim(OutLines[i])).v # JSONParse(Trim(OutLines[j])).v
         /\ promise = Fulfilled(JSONParse(Trim(OutLines[i])).v)

(***************************************************************************)
(* C5.  With exit code 0 and a stdout that is empty or holds nothing that  *)
(* parses as JSON (no line of it does, nor does the whole), the promise is *)
(* rejected with "Failed to parse Python output: ..." and resolve is never *)
(* called.                                                                 *)
(***************************************************************************)
C5_UnparsableRejects ==
    (/\ ExitedWith(0)
     /\ \A i \in DOMAIN OutLines : IsNonJsonLine(Trim(OutLines[i]))
     /\ IsNonJsonLine(Trim(dataString)))
      => /\ promise.state = "rejected"
         /\ StartsWith(promise.result, MsgFailedToParse)
         /\ calls.resolve = 0

\* A stdout that is not empty, with a '{' line, and holds no JSON.
C5_Witness ==
    /\ ExitedWith(0)
    /\ BraceLines # {}
    /\ \A i \in DOMAIN OutLines : IsNonJsonLine(Trim(OutLines[i]))
    /\ IsNonJsonLine(Trim(dataString))
    /\ promise.state = "rejected"

C7_FallbackWholeOutput ==
    ExitedWith(0)
      => /\ parseOf = "whole" <=> BraceLines = {}
         /\ parseOf = "line" <=> BraceLines # {}
         /\ (BraceLines = {} /\ JSONParse(Trim(dataString)).ok)
              => promise = Fulfilled(JSONParse(Trim(dataString)).v)

\* An array that spans two lines.
C7_Witness ==
    /\ ExitedWith(0)
    /\ BraceLines = {}
    /\ Len(OutLines) = 3
    /\ IsNonJsonLine(OutLines[1])
    /\ IsNonJsonLine(OutLines[2])
    /\ promise.state = "fulfilled"
    /\ promise.result[1] = "arr"

(***************************************************************************)
(* C8.  The accumulated stdout and stderr are the UTF-8 decoding of all    *)
(* the bytes the worker wrote, however the streams were cut into chunks.   *)
(***************************************************************************)
C8_ChunkingPreservesText ==
    Ran => /\ dataString = ToStringUtf8(stdoutBytes)
           /\ errorString = ToStringUtf8(stderrBytes)

(***************************************************************************)
(* C9.  On POST /api/client/chat every failure (a rejected invocation, a   *)
(* worker result whose success is false, an exception while the reply is   *)
(* built) is answered with success: false and one of the two fixed         *)
(* apologies, and nothing else: no error message, stderr, exit code or     *)
(* stdout.                                                                 *)
(***************************************************************************)
C9_ChatFailureIsApology ==
    (route = "chat" /\ response # <<>>)
      => LET body == response[1].body
         IN  /\ promise.state = "rejected" => body = ApologyBody(ApologyDifficulties)
             /\ (promise.state = "fulfilled" /\ promise.result[1] = "obj"
                 /\ Member(promise.result, KeySuccess) = JsFalse)
                  => body = ApologyBody(ApologyNoData)
             /\ (promise.state = "fulfilled" /\ Member(promise.result, KeySuccess) = JsTrue
                 /\ message = Undefined)
                  => body = ApologyBody(ApologyDifficulties)
             /\ Member(body, KeySuccess) # JsTrue
                  => body \in {ApologyBody(ApologyNoData), ApologyBody(ApologyDifficulties)}

\* The worker failed with a stderr that is not empty, and the chat has answered.
C9_Witness ==
    /\ route = "chat"
    /\ response # <<>>
    /\ ExitedWith(1)
    /\ errorString # <<>>
    /\ response[1].body = ApologyBody(ApologyDifficulties)

(***************************************************************************)
(* C10.  As claimed: each of the three routes answers with status 200 and  *)
(* a body that is an object with a boolean success.                        *)
(***************************************************************************)
C10_BodyHasBooleanSuccess ==
    response # <<>>
      => /\ response[1].status = 200
         /\ response[1].body[1] = "obj"
         /\ Member(response[1].body, KeySuccess) \in {JsTrue, JsFalse}

(***************************************************************************)
(* C10, amended.  Each of the three routes answers with status 200.  The   *)
(* chat answers with an object with a boolean success and, when it is      *)
(* false, a response string.  The two admin routes answer a failed         *)
(* invocation with { success: false, error: <the error message> }, and a   *)
(* successful one with the worker's parsed result as it is, which has a    *)
(* boolean success only if the worker printed one.                         *)
(***************************************************************************)
C10_ResponseShape ==
    response # <<>>
      => LET body == response[1].body
         IN  /\ response[1].status = 200
             /\ route = "chat"
                  => /\ body[1] = "obj"
                     /\ Member(body, KeySuccess) \in {JsTrue, JsFalse}
                     /\ Member(body, KeySuccess) = JsFalse => Member(body, KeyResponse)[1] = "str"
             /\ (route # "chat" /\ promise.state = "rejected")
                  => body = ErrorBody(promise.result)
             /\ (route # "chat" /\ promise.state = "fulfilled") => body = promise.result

\* An admin route has answered a failed invocation.
C10_Witness ==
    /\ route = "send-emails"
    /\ response # <<>>
    /\ promise.state = "rejected"
    /\ response[1].body = ErrorBody(promise.result)

(***************************************************************************)
(* C11.  A GET /api/admin/settings that succeeds gives, under the key of   *)
(* every row it read, the logical value the row was written from by PUT:   *)
(* an array or object structurally equal, a scalar as its string.          *)
(***************************************************************************)
C11_SettingsRoundTrip ==
    \A g \in DOMAIN getResponse :
      Member(getResponse[g].reply.body, KeySuccess) = JsTrue
        => \A n \in DOMAIN getResponse[g].rows :
             Member(Member(getResponse[g].reply.body, KeySettings),
                    getResponse[g].rows[n].key)
               = LogicalValue(getResponse[g].rows[n].from)

(***************************************************************************)
(* C12.  Each call of runPythonScript has spawned exactly one process, and *)
(* with several invocations in flight the buffers and the outcome of each  *)
(* are those of the events of its own process: its dataString and          *)
(* errorString are the text of its own 'data' events, and its promise is   *)
(* pending until its own 'error' or 'close' event and then settled as the  *)
(* handler of that event settles it from its own buffers.                  *)
(***************************************************************************)
C12_InvocationsIndependent ==
    \A i \in DOMAIN procs :
      LET p == procs[i]
      IN  /\ Len(p.spawned) = 1
          /\ p.dataString = p.own.dataString
          /\ p.errorString = p.own.errorString
          /\ p.phase \in {"Running", "SpawnFailed"} => p.promise = PendingPromise
          /\ (p.phase \in {"Errored", "Closed"} /\ SpawnFails(p.cause))
               => p.promise = AfterCall(PendingPromise, ErrorHandler(SystemErrorText(p.cause)))
          /\ (p.phase = "Closed" /\ ~SpawnFails(p.cause))
               => p.promise = AfterCall(PendingPromise,
                                  CloseHandler(p.closeEvents[1], p.own.dataString,
                                               p.own.errorString))

\* Two invocations of the same command were in flight together and have
\* ended with different outcomes.
C12_Witness ==
    /\ Len(procs) = 2
    /\ procs[2].others = 1
    /\ procs[1].spawned = procs[2].spawned
    /\ procs[1].phase = "Closed"
    /\ procs[2].phase = "Closed"
    /\ procs[1].dataString = StdoutText(<<LineOpen, LineClose>>)
    /\ procs[2].dataString # <<>>
    /\ procs[2].dataString # procs[1].dataString
    /\ procs[1].promise.state = "fulfilled"
    /\ procs[2].promise.state = "rejected"

(***************************************************************************)
(* C13.  At startup the server listens only after the init_db invocation   *)
(* has reached its outcome, it listens after every outcome, whether the    *)
(* invocation is fulfilled or rejected, and process.exit(1) is never       *)
(* reached.                                                                *)
(***************************************************************************)
C13_ListensAfterEveryOutcome ==
    /\ [](server = "listening" => promise.state # "pending")
    /\ [](server # "exited")
    /\ (promise.state # "pending") ~> (server = "listening")

\* The server listens after init_db was rejected since its output could not be
\* parsed.
C13_Witness ==
    /\ server = "listening"
    /\ route = "startup"
    /\ spawnArgs = <<SpawnArguments(<<ArgInitDb>>)>>
    /\ promise.state = "rejected"
    /\ StartsWith(promise.result, MsgFailedToParse)

(***************************************************************************)
(* C14.  No timeout: as long as the process of an invocation has delivered *)
(* neither 'close' nor 'error' the promise is pending and the request that *)
(* awaits it has no response, however long the worker runs and whatever it *)
(* has written.                                                            *)
(***************************************************************************)
C14_PendingUntilCloseOrError ==
    phase \in {"Running", "SpawnFailed"}
      => /\ promise = PendingPromise
         /\ outcomes = <<>>
         /\ response = <<>>

\* The worker has written a complete result and all of it has arrived, but the
\* process has not ended.
C14_Witness ==
    /\ phase = "Running"
    /\ route = "generate-report"
    /\ outPos = Len(stdoutBytes)
    /\ errPos = Len(stderrBytes)
    /\ dataString = StdoutText(<<LineSuccessTrue>>)
    /\ promise = PendingPromise
    /\ response = <<>>

(***************************************************************************)
(* C15.  The chat, answering a successful result to a message: the         *)
(* template is chosen by the keywords the message contains, letter case    *)
(* ignored, status or current before report or latest before progress      *)
(* before the default.  The status reply to a result with project data     *)
(* embeds "<overall_completes> out of <total_quota>" and the percentage    *)
(* with one decimal: "45 out of 100" and "45.0%" for 45, 100 and 0.45.     *)
(***************************************************************************)
C15_ChatTemplatePrecedence ==
    (/\ route = "chat"
     /\ response # <<>>
     /\ promise.state = "fulfilled"
     /\ message[1] = "str"
     /\ Truthy(Member(promise.result, KeySuccess)))
      => LET lower == ToLowerCase(message[2])
             data == Member(promise.result, KeyProjectData)
             analysis == Member(promise.result, KeyAnalysis)
             body == response[1].body
             text == Member(body, KeyResponse)
         IN  IF Includes(lower, WordStatus) \/ Includes(lower, WordCurrent)
             THEN data[1] = "obj"
                    => /\ Member(body, KeySuccess) = JsTrue
                       /\ StartsWith(text[2], TplStatus1)
                       /\ Includes(text[2], JsString(Member(data, KeyOverallCompletes))
                                            \o TplOutOf
                                            \o JsString(Member(data, KeyTotalQuota)))
                       /\ data = ReportFigures
                            => Includes(text[2], TextFigures) /\ Includes(text[2], TextPercent)
             ELSE IF Includes(lower, WordReport) \/ Includes(lower, WordLatest)
             THEN Member(body, KeySuccess) = JsTrue /\ text = analysis
             ELSE IF Includes(lower, WordProgress)
             THEN data[1] = "obj"
                    => /\ Member(body, KeySuccess) = JsTrue
                       /\ StartsWith(text[2], TplProgress1)
             ELSE /\ Member(body, KeySuccess) = JsTrue
                  /\ StartsWith(text[2], TplDefault)
                  /\ EndsWith(text[2], JsString(analysis))

\* A message with "current" and "report", in capitals, is answered with the
\* status of 45 out of 100.
C15_Witness ==
    /\ route = "chat"
    /\ message = <<"str", ChatCurrentReport>>
    /\ response # <<>>
    /\ promise.state = "fulfilled"
    /\ Member(promise.result, KeyProjectData) = ReportFigures
    /\ Includes(Member(response[1].body, KeyResponse)[2], TextFigures)
    /\ Includes(Member(response[1].body, KeyResponse)[2], TextPercent)

(***************************************************************************)
(* C16.  As claimed: the rejection for an output that cannot be parsed     *)
(* carries the message of the parse error and the raw stdout.              *)
(***************************************************************************)
C16_CarriesMessageAndStdout ==
    (ExitedWith(0) /\ promise.state = "rejected")
      => /\ StartsWith(promise.result, MsgFailedToParse)
         /\ Includes(promise.result, MsgSyntaxErrorAt)
         /\ Includes(promise.result, dataString)

(***************************************************************************)
(* C16, amended.  The rejection for an output that cannot be parsed        *)
(* carries the message of the parse error and nothing else: its text is    *)
(* "Failed to parse Python output: " followed by the message of the        *)
(* SyntaxError that JSON.parse threw on the text it was given (the first   *)
(* '{' line, or the whole trimmed stdout).  The raw stdout is not attached *)
(* to it.                                                                  *)
(***************************************************************************)
C16_CarriesMessageOnly ==
    (ExitedWith(0) /\ promise.state = "rejected")
      => LET text == IF BraceLines = {} THEN Trim(dataString)
                     ELSE Trim(OutLines[CHOOSE i \in BraceLines : \A j \in BraceLines : i <= j])
         IN  /\ ~JSONParse(text).ok
             /\ promise.result = MsgFailedToParse \o MsgSyntaxErrorAt
                                   \o NatToText(JSONParse(text).p - 1)

\* An output of two lines, neither JSON, has been rejected.
C16_Witness ==
    /\ ExitedWith(0)
    /\ dataString = StdoutText(<<LineLog, LineOpen>>)
    /\ promise.state = "rejected"
    /\ ~Includes(promise.result, dataString)

(***************************************************************************)
(* C17.  An invocation moves through Idle, Spawning, SpawnFailed or        *)
(* Running, and from Running through the exit to Parsed, ExitRejected or   *)
(* ParseFailed, by the transitions of the state machine only: no state is  *)
(* entered again, the outcome of a terminal state is not changed by a      *)
(* later 'close' or 'error' event, and there is never a second spawn.      *)
(***************************************************************************)
C17_StateMachine ==
    [][/\ BridgeState' # BridgeState => <<BridgeState, BridgeState'>> \in BridgeTransitions
       /\ promise.state # "pending" => promise' = promise
       /\ Len(spawnArgs') <= 1]_vars

\* The 'close' event that follows the 'error' event has been handled, and the
\* invocation is still in SpawnFailed.
C17_Witness ==
    /\ BridgeState = "SpawnFailed"
    /\ phase = "Closed"
    /\ closeEvents = <<SpawnFailStatus(cause)>>
    /\ calls.reject = 2
    /\ Len(spawnArgs) = 1

(***************************************************************************)
(* C19.  With exit code 0, when the first line whose trimmed content       *)
(* starts with '{' is not JSON, the promise is rejected with "Failed to    *)
(* parse Python output: ..." after that one call of JSON.parse: no later   *)
(* line and not the whole output is tried, also when a later line or the   *)
(* whole trimmed output is JSON.                                           *)
(***************************************************************************)
C19_FirstBraceLineDecides ==
    (/\ ExitedWith(0)
     /\ BraceLines # {}
     /\ IsNonJsonLine(Trim(OutLines[CHOOSE i \in BraceLines : \A j \in BraceLines : i <= j])))
      => /\ promise.state = "rejected"
         /\ StartsWith(promise.result, MsgFailedToParse)
         /\ parseOf = "line"
         /\ calls = [resolve |-> 0, reject |-> 1]

\* The whole output is an object printed over two lines, the first of them
\* " {": it has been rejected.
C19_Witness ==
    /\ ExitedWith(0)
    /\ dataString = StdoutText(<<LineBrace, LineEnd>>)
    /\ JSONParse(Trim(dataString)).ok
    /\ promise.state = "rejected"
    /\ parseOf = "line"

(***************************************************************************)
(* C20.  When the child is ended by a signal, 'close' reports a null exit  *)
(* code; null is not 0, so the promise is rejected with "Python script     *)
(* failed with code null: " followed by the stderr text, and the stdout    *)
(* text is never given to JSON.parse, whatever it holds.                   *)
(***************************************************************************)
C20_SignalExitRejects ==
    (Ran /\ closeEvents = <<ExitBySignal>>)
      => /\ promise = Rejected(MsgFailedWithCode \o Str(<<"n", "u", "l", "l">>)
                                 \o MsgColon \o errorString)
         /\ parseOf = "none"
         /\ calls = [resolve |-> 0, reject |-> 1]

\* A child killed by a signal after it wrote a complete JSON result line.
C20_Witness ==
    /\ Ran
    /\ closeEvents = <<ExitBySignal>>
    /\ dataString = StdoutText(<<LineSuccessTrue>>)
    /\ JSONParse(Trim(dataString)).ok
    /\ promise.state = "rejected"

\* The entries of the settings of the i-th PUT request.
PutEntries(i) == IF IsNullish(puts[i].settings) THEN <<>> ELSE puts[i].settings[2]

\* The rows of the key of the n-th entry of the i-th PUT request.
RowsOfEntry(i, n) == {k \in DOMAIN store : store[k].key = PutEntries(i)[n][1]}

(***************************************************************************)
(* C18.  PUT /api/admin/settings writes its keys one at a time, in entry   *)
(* order, with no transaction: at every moment the keys before the next    *)
(* entry of a request are in the store, each with the value the request    *)
(* wrote unless another request wrote the key after it, and no later key   *)
(* of the request has been written by it.  When a write fails the answer   *)
(* is success: false with the error's message, the keys before it stay     *)
(* stored and the keys after it are never written; the answer is           *)
(* success: true only after the last key is written.                       *)
(***************************************************************************)
C18_KeyByKeyNoTransaction ==
    \A i \in DOMAIN puts :
        /\ puts[i].next \in 1..(Len(PutEntries(i)) + 1)
        /\ \A n \in DOMAIN PutEntries(i) :
              IF n < puts[i].next
              THEN /\ RowsOfEntry(i, n) # {}
                   /\ \A k \in RowsOfEntry(i, n) :
                         \/ store[k].by # i
                         \/ store[k].value = ValueStr(PutEntries(i)[n][2])
              ELSE \A k \in RowsOfEntry(i, n) : store[k].by # i
        /\ PutAnswered(i, JsTrue)
             => ~IsNullish(puts[i].settings) /\ puts[i].next = Len(PutEntries(i)) + 1
        /\ (PutAnswered(i, JsFalse) /\ ~IsNullish(puts[i].settings))
             => /\ puts[i].next <= Len(PutEntries(i))
                /\ puts[i].response = <<FailureReply(MsgDbError)>>

\* Two requests with the keys a and b each: the second write of the first
\* request failed, its first write is kept, and the store has the key a as the
\* first request wrote it and the key b as the second did.
C18_Witness ==
    /\ Len(puts) = 2
    /\ \A i \in 1..2 : Len(PutEntries(i)) = 2 /\ PutEntries(i)[1][1] = Str(<<"a">>)
    /\ PutEntries(1)[1][2] # PutEntries(2)[1][2]
    /\ PutAnswered(1, JsFalse) /\ puts[1].next = 2
    /\ PutAnswered(2, JsTrue)
    /\ Len(store) = 2
    /\ \E k \in DOMAIN store :
          /\ store[k].key = Str(<<"a">>) /\ store[k].by = 1
          /\ store[k].value = ValueStr(PutEntries(1)[1][2])
    /\ \E k \in DOMAIN store :
          /\ store[k].key = Str(<<"b">>) /\ store[k].by = 2
          /\ store[k].value = ValueStr(PutEntries(2)[2][2])

====
